---- MODULE Spec2Model ----
(***************************************************************************)
(* hypr-ai-automator: the query pipeline of the daemon                     *)
(* (daemon.py: process_user_query, _execute_ai_response), the action       *)
(* dispatcher (core/action_dispatcher.py), the model client's error        *)
(* handling (ai/gemini_client.py) and the compositor event listener        *)
(* (core/hyprland_connector.py).                                           *)
(*                                                                         *)
(* Two state machines share the module:                                    *)
(*   Spec / SpecConc   the query pipeline, one or two queries in flight    *)
(*   SpecListener      the event listener and its observers                *)
(***************************************************************************)
EXTENDS Integers, Sequences, FiniteSets, TLC

\* Longest action list the model client returns.
MaxActions == 2

\* A dict key that is not present (dict.get(key) without the key).
Absent == "<absent>"

\* Query ids; a query is one call of process_user_query.
Queries == {"q1", "q2"}

(***************************************************************************)
(* Action specs.  An action is {type, params}; params are kept as the      *)
(* class of values that decides which branch of the handler is taken.      *)
(***************************************************************************)

\* keys of ActionDispatcher.handlers
Handlers ==
    {"keyboard", "mouse_move", "mouse_click", "execute", "hyprland_dispatch",
     "focus_window", "screenshot", "file_write", "file_read", "audio_control",
     "brightness", "process_control"}

\* action.get('type') when the action has no 'type' key
NoneType == "None"
\* a 'type' that json.loads produced as a list or an object: not hashable
Unhashable == "<unhashable>"

Act(t, p) == [type |-> t, arg |-> p]

\* The actions the pipeline is exercised with: every outcome class of
\* execute() is present (success, handler error, policy rejection,
\* unknown kind, missing type, unhashable type).
FullMenu ==
    { Act("execute", "safe"), Act("execute", "dangerous"), Act("execute", "empty"),
      Act("file_write", "inside_home"), Act("file_write", "outside_home"),
      Act("file_read", "small"), Act("file_read", "too_large"),
      Act("hyprland_dispatch", "workspace"), Act("keyboard", "text"),
      Act("audio_control", "bogus"),
      Act("nonexistent", "none"), Act(NoneType, "none"), Act(Unhashable, "none") }

\* Two queries at once are exercised with one action that succeeds and one
\* that fails: by rejection in one menu, inside its handler in the other.
LeanMenus ==
    { { Act("execute", "safe"), Act("nonexistent", "none") },
      { Act("execute", "safe"), Act("execute", "dangerous") } }

\* What the world outside the process does to a handler's external call.
Envs == {"ok", "exit_nonzero", "oserror"}

Raise(msg, n) == [raised |-> TRUE, val |-> msg, spawned |-> n]
Return(out, n) == [raised |-> FALSE, val |-> out, spawned |-> n]

\* An external tool run with create_subprocess_exec and no returncode check.
Unchecked(env, out) ==
    IF env = "oserror" THEN Raise("OSError", 0) ELSE Return(out, 1)

(***************************************************************************)
(* _handle_execute.  A command text is a sequence of pieces, each a piece  *)
(* of a deny-listed pattern or other text, so that the text contains a     *)
(* pattern exactly when the pattern's pieces occur in it side by side.     *)
(***************************************************************************)
\* Pieces in the longest command text.
MaxCommand == 3

Pieces == {"rm -rf ", "/", "mkfs", "dd ", "if=", "ls"}
Commands == UNION { [1..k -> Pieces] : k \in 0..MaxCommand }

\* line 227: 'rm -rf /', 'mkfs', 'dd if='
dangerous_patterns == { <<"rm -rf ", "/">>, <<"mkfs">>, <<"dd ", "if=">> }

\* line 257: the terminals _detect_terminal probes with `which`, in order
NumTerminals == 6

\* `pattern in command`
RECURSIVE In(_, _)
In(pattern, command) ==
    IF Len(command) < Len(pattern) THEN FALSE
    ELSE IF SubSeq(command, 1, Len(pattern)) = pattern THEN TRUE
    ELSE In(pattern, Tail(command))

\* _handle_execute with the terminal detected before the deny-list is
\* looked at
HandleExecute_DetectFirst(command, wait, terminal, env, probes) ==
    LET n == IF terminal THEN probes ELSE 0 IN
    IF command = <<>> THEN Raise("No command specified", 0)
    ELSE IF \E pattern \in dangerous_patterns : In(pattern, command)
         THEN Raise("Dangerous command blocked for safety", n)
    ELSE IF env = "oserror" THEN Raise("OSError", n)
    ELSE IF wait THEN Return("Command executed successfully", n + 1)
    ELSE Return("Command launched in background", n + 1)

\* lines 217-253.  probes is the number of `which` runs _detect_terminal
\* makes (lines 258-260) when terminal is set; env is what becomes of the
\* spawn of the command itself.
HandleExecute(command, wait, terminal, env, probes) ==
    IF command = <<>> THEN Raise("No command specified", 0)
    ELSE IF \E pattern \in dangerous_patterns : In(pattern, command)
         THEN Raise("Dangerous command blocked for safety", 0)
    ELSE LET n == IF terminal THEN probes ELSE 0 IN
         IF env = "oserror" THEN Raise("OSError", n)
         ELSE IF wait THEN Return("Command executed successfully", n + 1)
         ELSE Return("Command launched in background", n + 1)

\* the command text of an execute action of the menus
CommandOf(arg) ==
    CASE arg = "empty" -> <<>>
      [] arg = "dangerous" -> <<"rm -rf ", "/">>
      [] OTHER -> <<"ls">>

(***************************************************************************)
(* _handle_file_write and _handle_file_read.  A path is kept as pathlib    *)
(* keeps it: an anchor ("/" or none) and its parts, with '..' left in      *)
(* place; str() of it is a text, kept as a sequence of pieces so that      *)
(* startswith is computed on the text.  The home directory is /u, /u2 is   *)
(* a sibling whose name begins with the home directory's, /etc is          *)
(* elsewhere.  The file system is the set of directories and the files     *)
(* with their content, both under their resolved location.                 *)
(***************************************************************************)
\* Parts in the longest path.
MaxDepth == 3
\* Characters in the longest content.
MaxContent == 2

Names == {"~", "u", "u2", "..", "etc", "x"}
Paths == [anchor : {"/", ""}, parts : UNION { [1..k -> Names] : k \in 0..MaxDepth }]
\* params.get('path', '') of an action without a path
EmptyPath == [anchor |-> "", parts |-> <<>>]

\* Path.home() and the working directory of the daemon
Home == [anchor |-> "/", parts |-> <<"u">>]
Cwd == <<"u">>

\* Path.expanduser(): a leading '~' part becomes the home directory
Expanduser(p) ==
    IF p.anchor = "" /\ p.parts # <<>> /\ p.parts[1] = "~"
    THEN [anchor |-> "/", parts |-> Home.parts \o Tail(p.parts)]
    ELSE p

\* str(path) as a text
Spell(name) == IF name = "u2" THEN <<"u", "2">> ELSE <<name>>
RECURSIVE Join(_)
Join(parts) ==
    IF parts = <<>> THEN <<>>
    ELSE Spell(Head(parts))
         \o (IF Tail(parts) = <<>> THEN <<>> ELSE <<"/">> \o Join(Tail(parts)))
StrOf(p) ==
    IF p.parts = <<>> THEN (IF p.anchor = "/" THEN <<"/">> ELSE <<".">>)
    ELSE (IF p.anchor = "/" THEN <<"/">> ELSE <<>>) \o Join(p.parts)

\* str.startswith
StartsWith(text, prefix) ==
    Len(text) >= Len(prefix) /\ SubSeq(text, 1, Len(prefix)) = prefix

\* line 346: str(filepath).startswith(str(Path.home()))
InHome(fp) == StartsWith(StrOf(fp), StrOf(Home))

\* Where the operating system finds a path: '..' steps up, a path without
\* anchor starts at the working directory.
RECURSIVE Walk(_, _)
Walk(at, parts) ==
    IF parts = <<>> THEN at
    ELSE Walk(IF Head(parts) = ".."
              THEN (IF at = <<>> THEN at ELSE SubSeq(at, 1, Len(at) - 1))
              ELSE Append(at, Head(parts)),
              Tail(parts))
Resolve(p) == Walk(IF p.anchor = "/" THEN <<>> ELSE Cwd, p.parts)

\* the path of the first k parts of p; Path.parent
Upto(p, k) == [p EXCEPT !.parts = SubSeq(p.parts, 1, k)]
Parent(p) == Upto(p, IF p.parts = <<>> THEN 0 ELSE Len(p.parts) - 1)

\* line 349: filepath.parent.mkdir(parents=True, exist_ok=True).  Every
\* directory the path passes through is made, from the top, until a file
\* stands in the way.
RECURSIVE Mkdir(_, _, _, _)
Mkdir(p, k, dirs, files) ==
    IF k > Len(p.parts) THEN [ok |-> TRUE, dirs |-> dirs]
    ELSE IF Resolve(Upto(p, k)) \in DOMAIN files THEN [ok |-> FALSE, dirs |-> dirs]
    ELSE Mkdir(p, k + 1, dirs \cup {Resolve(Upto(p, k))}, files)

\* the path can be walked: every directory it passes through exists
Walkable(p, dirs) ==
    \A k \in 0..(Len(p.parts) - 1) : Resolve(Upto(p, k)) \in dirs

\* what a handler did: its outcome and the file system it leaves
Did(h, files, dirs) == [h |-> h, files |-> files, dirs |-> dirs]

\* lines 335-354
HandleFileWrite(path, content, env, files, dirs) ==
    IF path = EmptyPath THEN Did(Raise("No path specified", 0), files, dirs)
    ELSE LET fp == Expanduser(path) IN
    IF ~InHome(fp)
    THEN Did(Raise("Can only write to files in home directory", 0), files, dirs)
    ELSE IF env # "ok" THEN Did(Raise("OSError", 0), files, dirs)
    ELSE LET made == Mkdir(Parent(fp), 1, dirs, files) IN
    IF ~made.ok THEN Did(Raise("FileExistsError", 0), files, made.dirs)
    ELSE IF Resolve(fp) \in made.dirs
         THEN Did(Raise("IsADirectoryError", 0), files, made.dirs)
    ELSE Did(Return("Wrote bytes", 0),
             [r \in DOMAIN files \cup {Resolve(fp)} |->
                 IF r = Resolve(fp) THEN content ELSE files[r]],
             made.dirs)

\* line 369: 1024 * 1024
MaxFileSize == 1048576
\* line 375
MaxReadChars == 5000

\* open(filepath, 'r').read(): universal newlines, '\r\n' and '\r' are read
\* as '\n'
RECURSIVE ReadText(_)
ReadText(data) ==
    IF data = <<>> THEN <<>>
    ELSE IF Head(data) = "CR"
         THEN <<"LF">> \o ReadText(IF Len(data) > 1 /\ data[2] = "LF"
                                   THEN Tail(Tail(data)) ELSE Tail(data))
    ELSE <<Head(data)>> \o ReadText(Tail(data))

\* content[:n]
Truncate(text, n) == SubSeq(text, 1, IF Len(text) < n THEN Len(text) ELSE n)

\* lines 356-375
HandleFileRead(path, env, files, dirs) ==
    IF path = EmptyPath THEN Did(Raise("No path specified", 0), files, dirs)
    ELSE LET fp == Expanduser(path)
             at == Resolve(fp) IN
    IF ~Walkable(fp, dirs) \/ at \notin (DOMAIN files \cup dirs)
    THEN Did(Raise("File not found", 0), files, dirs)
    ELSE IF at \in dirs THEN Did(Raise("IsADirectoryError", 0), files, dirs)
    ELSE IF Len(files[at]) > MaxFileSize
         THEN Did(Raise("File too large (max 1MB)", 0), files, dirs)
    ELSE IF env # "ok" THEN Did(Raise("OSError", 0), files, dirs)
    ELSE Did(Return(Truncate(ReadText(files[at]), MaxReadChars), 0), files, dirs)

\* A file of any size is a sequence of runs: n times the same character.
\* "e2" is a character of two bytes; "CRLF" is the two bytes '\r\n', read
\* as the one character '\n'.
\* Runs in the longest file.
MaxRuns == 2

RunChars == {"a", "e2", "CRLF"}
RunLengths == {1, 2500, 4999, 5000, 5001, 524288, 1048575, 1048576, 1048577}
RunData == UNION { [1..k -> [c : RunChars, n : RunLengths]] : k \in 0..MaxRuns }

BytesOf(c) == IF c = "a" THEN 1 ELSE 2

\* filepath.stat().st_size
RECURSIVE StSize(_)
StSize(data) ==
    IF data = <<>> THEN 0
    ELSE Head(data).n * BytesOf(Head(data).c) + StSize(Tail(data))

\* f.read() of a file opened with 'r'
ReadRuns(data) ==
    [i \in DOMAIN data |->
        [c |-> IF data[i].c = "CRLF" THEN "LF" ELSE data[i].c, n |-> data[i].n]]

\* len(content)
RECURSIVE CharCount(_)
CharCount(text) ==
    IF text = <<>> THEN 0 ELSE Head(text).n + CharCount(Tail(text))

\* content[:k]
RECURSIVE Take(_, _)
Take(text, k) ==
    IF text = <<>> \/ k <= 0 THEN <<>>
    ELSE IF Head(text).n <= k
         THEN <<Head(text)>> \o Take(Tail(text), k - Head(text).n)
    ELSE <<[c |-> Head(text).c, n |-> k]>>

\* lines 368-375 with a file rejected from the cap on
ReadWithinCaps_FromCap(data, env) ==
    IF StSize(data) >= MaxFileSize THEN Raise("File too large (max 1MB)", 0)
    ELSE IF env # "ok" THEN Raise("UnicodeDecodeError", 0)
    ELSE Return(Take(ReadRuns(data), MaxReadChars), 0)

\* lines 368-375 of _handle_file_read, for a path that exists
ReadWithinCaps(data, env) ==
    IF StSize(data) > MaxFileSize THEN Raise("File too large (max 1MB)", 0)
    ELSE IF env # "ok" THEN Raise("UnicodeDecodeError", 0)
    ELSE Return(Take(ReadRuns(data), MaxReadChars), 0)

\* The kind-specific handlers: what the handler returns or raises, and how
\* many subprocesses it spawned on the way.
Handle(a, env) ==
    CASE a.type = "keyboard" ->
            IF a.arg = "empty" THEN Raise("No keys specified", 0)
            ELSE IF env = "oserror" THEN Raise("OSError", 0)
            ELSE IF env = "exit_nonzero" THEN Raise("ydotool error: ", 1)
            ELSE Return("Typed: " \o a.arg, 1)
      [] a.type = "mouse_move" -> Unchecked(env, "Moved mouse")
      [] a.type = "mouse_click" -> Unchecked(env, "Clicked")
      [] a.type = "execute" ->
            HandleExecute(CommandOf(a.arg), TRUE, FALSE, env, 0)
      [] a.type = "hyprland_dispatch" ->
            IF a.arg = "empty" THEN Raise("No dispatcher specified", 0)
            ELSE IF env # "ok" THEN Raise("Dispatcher failed: " \o a.arg, 0)
            ELSE Return("Executed: " \o a.arg, 0)
      [] a.type = "focus_window" ->
            IF env # "ok" THEN Raise("Could not focus window: " \o a.arg, 0)
            ELSE Return("Focused window: " \o a.arg, 0)
      [] a.type = "screenshot" ->
            IF env = "oserror" THEN Raise("OSError", 0)
            ELSE IF env = "exit_nonzero" THEN Raise("Screenshot failed: ", 1)
            ELSE Return("Screenshot captured", 1)
      [] a.type = "file_write" ->
            IF a.arg = "empty" THEN Raise("No path specified", 0)
            ELSE IF a.arg = "outside_home"
                 THEN Raise("Can only write to files in home directory", 0)
            ELSE IF env = "oserror" THEN Raise("OSError", 0)
            ELSE Return("Wrote bytes", 0)
      [] a.type = "file_read" ->
            IF a.arg = "empty" THEN Raise("No path specified", 0)
            ELSE IF a.arg = "missing" THEN Raise("File not found", 0)
            ELSE IF a.arg = "too_large" THEN Raise("File too large (max 1MB)", 0)
            ELSE IF env = "oserror" THEN Raise("OSError", 0)
            ELSE Return("content", 0)
      [] a.type = "audio_control" ->
            IF a.arg \notin {"volume_up", "volume_down", "mute"}
            THEN Raise("Unknown audio action: " \o a.arg, 0)
            ELSE Unchecked(env, "Audio: " \o a.arg)
      [] a.type = "brightness" ->
            IF a.arg \notin {"set", "increase", "decrease"}
            THEN Raise("Unknown brightness action: " \o a.arg, 0)
            ELSE Unchecked(env, "Brightness: " \o a.arg)
      [] a.type = "process_control" ->
            IF a.arg = "list" THEN Unchecked(env, "ps aux")
            ELSE IF a.arg = "kill" THEN Unchecked(env, "Killed process")
            ELSE IF a.arg = "kill_noid" THEN Raise("No process identifier specified", 0)
            ELSE Raise("Unknown process action: " \o a.arg, 0)

\* ActionDispatcher.execute seen from its caller: the value it returns, or
\* the exception that leaves it.
Returned(ok, out, err) ==
    [kind |-> "return", success |-> ok, output |-> out, error |-> err]
Raised(err) ==
    [kind |-> "raise", success |-> FALSE, output |-> Absent, error |-> err]

\* execute() up to the handler call: the membership test of line 53.
\* "raise"  : the test itself raises (an unhashable key)
\* "reject" : the type is not registered
\* "call"   : the handler is awaited
Lookup(a) ==
    IF a.type = Unhashable THEN "raise"
    ELSE IF a.type \notin Handlers THEN "reject"
    ELSE "call"

Rejected(a) == Returned(FALSE, Absent, "Unknown action type: " \o a.type)

\* execute() without its try/except: the handler's exception leaves it.
Wrap_NoCatch(h) ==
    IF h.raised THEN Raised(h.val) ELSE Returned(TRUE, h.val, Absent)

\* execute() after the handler call: lines 59-71.
Wrap(h) ==
    IF h.raised THEN Returned(FALSE, Absent, h.val)
    ELSE Returned(TRUE, h.val, Absent)


(***************************************************************************)
(* SystemMonitor (core/system_monitor.py): the snapshot and its probes.    *)
(* A dict is a function whose domain is the keys it holds; a scalar is     *)
(* kept as the class of its value ("n": a measured number).                *)
(***************************************************************************)
\* the empty dict
EmptyDict == [k \in {} |-> Absent]

\* the sub-probes of _gather_system_state that have a try/except of their own
Probes == {"disk_usage", "network", "battery", "audio", "bluetooth", "uptime_seconds"}
\* those that run an external program
External == {"network", "audio", "bluetooth"}

\* What the world does to the probes of one sample: per probe "ok",
\* "exit_nonzero" (the external program ran and failed) or "oserror" (the
\* probe's call raised); no probe or a single one fails.
ProbeEnvs ==
    { e \in [Probes -> Envs] :
        /\ \A p \in Probes \ External : e[p] # "exit_nonzero"
        /\ \A p, q \in Probes : (e[p] # "ok" /\ e[q] # "ok") => p = q }
AllOk == [p \in Probes |-> "ok"]

\* lines 66-78
GetDiskUsage(env) ==
    IF env = "ok"
    THEN [total_gb |-> "n", used_gb |-> "n", free_gb |-> "n", percent |-> "n"]
    ELSE EmptyDict

\* lines 80-113: nmcli that exits nonzero leaves wifi_connected False and
\* the counters are still read; an exception gives the short dict
GetNetworkInfo(env) ==
    CASE env = "ok" ->
            [wifi_connected |-> TRUE, wifi_ssid |-> "ssid",
             bytes_sent |-> "n", bytes_recv |-> "n"]
      [] env = "exit_nonzero" ->
            [wifi_connected |-> FALSE, wifi_ssid |-> "None",
             bytes_sent |-> "n", bytes_recv |-> "n"]
      [] OTHER -> [wifi_connected |-> FALSE]

\* lines 115-128
GetBatteryInfo(env) == IF env = "ok" THEN "battery" ELSE "None"

\* lines 130-165: a pactl that exits nonzero leaves volume 0
GetAudioInfo(env) ==
    IF env = "ok" THEN [volume |-> 65, muted |-> TRUE]
    ELSE [volume |-> 0, muted |-> FALSE]

\* lines 167-186
GetBluetoothInfo(env) ==
    IF env = "ok" THEN [powered |-> TRUE, available |-> TRUE]
    ELSE [powered |-> FALSE, available |-> FALSE]

\* lines 188-195
GetUptime(env) == IF env = "ok" THEN 1 ELSE 0

\* a network probe whose except branch returns {} as the disk probe's does
GetProbe_EmptyDefault(p, env) ==
    CASE p = "disk_usage" -> GetDiskUsage(env)
      [] p = "network" -> IF env = "oserror" THEN EmptyDict ELSE GetNetworkInfo(env)
      [] p = "battery" -> GetBatteryInfo(env)
      [] p = "audio" -> GetAudioInfo(env)
      [] p = "bluetooth" -> GetBluetoothInfo(env)
      [] p = "uptime_seconds" -> GetUptime(env)

\* lines 55-61: the value sub-probe p puts into the snapshot
GetProbe(p, env) ==
    CASE p = "disk_usage" -> GetDiskUsage(env)
      [] p = "network" -> GetNetworkInfo(env)
      [] p = "battery" -> GetBatteryInfo(env)
      [] p = "audio" -> GetAudioInfo(env)
      [] p = "bluetooth" -> GetBluetoothInfo(env)
      [] p = "uptime_seconds" -> GetUptime(env)

\* the keys read from psutil and the clock with no try/except
CoreKeys ==
    {"cpu_percent", "cpu_count", "memory_percent", "memory_available_gb",
     "memory_total_gb", "load_average"}
TopKeys == {"timestamp"} \cup CoreKeys \cup Probes

\* lines 48-64: the snapshot of sample number id under the probe outcomes e
GatherSystemState(id, e) ==
    [k \in TopKeys |->
        IF k = "timestamp" THEN id
        ELSE IF k \in CoreKeys THEN "n"
        ELSE GetProbe(k, e[k])]

\* line 20: current_state = {}
NoSnapshot == EmptyDict

\* The tasks that call get_state at the same time (daemon.py line 134, for
\* queries among others), and all that can have a sample in flight.
Callers == Queries
Procs == {"loop"} \cup Callers

\* a snapshot stored before the run begins
EarlierSnapshot == GatherSystemState(0, AllOk)

\* get_state with `if self.current_state is None`
NeedsSample_IsNone(cs) == FALSE

\* line 42: `if not self.current_state`
NeedsSample(cs) == cs = NoSnapshot

\* a loop that clears the snapshot when a sample fails
AfterFailedSample_Clear(cs) == NoSnapshot

\* lines 36-38: what start_monitoring leaves stored when its sample raised
AfterFailedSample(cs) == cs

(***************************************************************************)
(* State.                                                                  *)
(***************************************************************************)
VARIABLES
    menu,           \* the action specs the model client may return
    live,           \* the queries that are submitted in this run
    faults,         \* whether the world outside the process may fail
    pc,             \* pc[q]: where process_user_query(q) is
    shot,           \* shot[q]: include_screenshot
    reply,          \* reply[q]: what gemini_client.process_query returned
    idx,            \* idx[q]: actions of reply[q] already looped over
    results,        \* results[q]: the list built by _execute_ai_response
    ret,            \* ret[q]: what process_user_query returned
    calls,          \* calls[q]: history of ActionDispatcher.execute calls
    conversation,   \* ContextStore: the conversation turns, oldest first
    commands,       \* ContextStore: the command log, oldest first
    current_state   \* SystemMonitor.current_state

qvars == <<menu, live, faults, pc, shot, reply, idx, results, ret, calls,
           conversation, commands, current_state>>

\* Sequences over S of length at most n.
SeqUpTo(S, n) == UNION { [1..k -> S] : k \in 0..n }

B(b) == IF b THEN "true" ELSE "false"

\* str(action), the text logged as the command
Str(a) == "{'type': " \o a.type \o ", 'params': " \o a.arg \o "}"

(***************************************************************************)
(* gemini_client.process_query: what reaches the daemon.                   *)
(***************************************************************************)
ReplyKinds == {"ok", "ok_no_explanation", "null_actions", "parse_error", "transport_error"}

\* iterable = FALSE stands for a reply whose 'actions' is null.
ModelReply(kind, acts) ==
    CASE kind = "ok" ->
            [explanation |-> "plan", actions |-> acts, error |-> Absent, iterable |-> TRUE]
      [] kind = "ok_no_explanation" ->
            [explanation |-> Absent, actions |-> acts, error |-> Absent, iterable |-> TRUE]
      [] kind = "null_actions" ->
            [explanation |-> "plan", actions |-> <<>>, error |-> Absent, iterable |-> FALSE]
      [] kind = "parse_error" ->
            [explanation |-> "Error: Could not parse AI response",
             actions |-> <<>>, error |-> "JSONDecodeError", iterable |-> TRUE]
      [] kind = "transport_error" ->
            [explanation |-> "Error communicating with AI: TransportError",
             actions |-> <<>>, error |-> "TransportError", iterable |-> TRUE]

NoReply == ModelReply("null_actions", <<>>)

(***************************************************************************)
(* daemon._execute_ai_response                                             *)
(***************************************************************************)
\* One entry of the 'actions' list of a query result.  A key the entry does
\* not hold is Absent.
Entry(a, ok, out, err) ==
    [action |-> a, success |-> ok, output |-> out, error |-> err]

\* lines 219-223: the entry built from the value execute() returned
OkEntry(a, r) ==
    Entry(a, r.success, IF r.output = Absent THEN "" ELSE r.output, Absent)

\* lines 235-241: the entry built by the except branch
ErrEntry(a, msg) == Entry(a, FALSE, Absent, msg)

\* The body of the for loop after execute() has come back with r (a value
\* or an exception); addOk tells whether context_manager.add_command
\* succeeded.
AfterExecute(res, a, r, addOk) ==
    IF r.kind = "raise" THEN Append(res, ErrEntry(a, r.error))
    ELSE IF addOk THEN Append(res, OkEntry(a, r))
    ELSE Append(Append(res, OkEntry(a, r)), ErrEntry(a, "add_command failed"))

\* any() where the code has all()
AnySucceeded(res) == \E i \in DOMAIN res : res[i].success

\* line 244
AllSucceeded(res) == \A i \in DOMAIN res : res[i].success

\* lines 243-248
QueryResult(rep, res) ==
    [success |-> AllSucceeded(res),
     explanation |-> IF rep.explanation = Absent THEN "" ELSE rep.explanation,
     actions |-> res,
     error |-> Absent,
     timestamp |-> "now"]

\* process_user_query, lines 177-183
ErrorResult(msg) ==
    [success |-> FALSE, explanation |-> Absent, actions |-> <<>>,
     error |-> msg, timestamp |-> Absent]

NoResult ==
    [success |-> FALSE, explanation |-> Absent, actions |-> <<>>,
     error |-> Absent, timestamp |-> Absent]

\* json.dumps(result)
RECURSIVE DumpEntries(_)
DumpEntries(res) ==
    IF res = <<>> THEN ""
    ELSE "{" \o Str(Head(res).action) \o "," \o B(Head(res).success) \o ","
         \o Head(res).output \o "," \o Head(res).error \o "}" \o DumpEntries(Tail(res))

Dumps(r) ==
    "{" \o B(r.success) \o "," \o r.explanation \o ",[" \o DumpEntries(r.actions)
    \o "]," \o r.timestamp \o "}"

(***************************************************************************)
(* ContextStore (core/context_manager.py): append-only logs.               *)
(***************************************************************************)
AddConversation(log, q, content, role) ==
    Append(log, [q |-> q, role |-> role, content |-> content])

AddCommand(log, q, i, command, output, success) ==
    Append(log, [q |-> q, i |-> i, command |-> command, output |-> output,
                 success |-> success])


(***************************************************************************)
(* State of the event listener (HyprlandConnector).                        *)
(***************************************************************************)
VARIABLES
    running,          \* HyprlandConnector.running
    lpc,              \* where start_event_listener is
    emitted,          \* records the compositor has begun to write so far
    torn,             \* how the record straddling the last read was cut
    chunk,            \* lines of the current read not yet looked at
    cbIdx,            \* the callback being awaited, 0 outside the for loop
    event_callbacks,  \* HyprlandConnector.event_callbacks
    received,         \* received[o]: the calls observer o has got
    handled,          \* the events passed to _handle_event, in order
    regAt,            \* regAt[o]: events handled before o was registered
    failed            \* failed[o]: the first event o raised on, 0 if none

lvars == <<running, lpc, emitted, torn, chunk, cbIdx, event_callbacks,
           received, handled, regAt, failed>>

(***************************************************************************)
(* State of the SystemMonitor besides current_state.  SystemMonitor has    *)
(* no stop(): its running flag is True from start_monitoring on, and the   *)
(* loop ends by cancellation only.                                         *)
(***************************************************************************)
VARIABLES
    mpc,        \* where start_monitoring is
    gpc,        \* gpc[c]: where caller c's get_state is
    sampled,    \* _gather_system_state calls begun so far
    inflight,   \* inflight[p]: the number of the sample p is awaiting
    stores,     \* assignments to current_state so far
    probed,     \* the probe outcomes of the sample stored last
    errors,     \* sample errors start_monitoring has logged
    returned    \* the get_state calls that have ended, oldest first

mvars == <<mpc, gpc, sampled, inflight, stores, probed, errors, returned>>

(***************************************************************************)
(* ActionDispatcher.execute called on its own with one execute action.     *)
(***************************************************************************)
VARIABLES
    xin,    \* the params of the action: command, wait, terminal
    xcall   \* the call of execute(), as in calls[q]; <<>> before it ends

xvars == <<xin, xcall>>

(***************************************************************************)
(* ActionDispatcher.execute called with file_write and file_read actions   *)
(* on one path.                                                            *)
(***************************************************************************)
VARIABLES
    fpath,    \* params['path'] of the actions
    ftexts,   \* the contents a file_write action may carry
    files,    \* the files: resolved location |-> content
    dirs,     \* the directories: resolved locations
    fcall,    \* the last call of execute() that ended; <<>> before the first
    written   \* the content of the last file_write that succeeded; <<>> if none

fvars == <<fpath, ftexts, files, dirs, fcall, written>>

(***************************************************************************)
(* WebServer (web/server.py): the push connections and broadcast.          *)
(***************************************************************************)
VARIABLES
    active_connections,  \* WebServer.active_connections
    alive,        \* the clients whose end of the connection is open
    wpc,          \* per client, where _handle_websocket is
    wstep,        \* per client, the step of the query branch that is next
    nrecv,        \* the messages received so far
    wmsg,         \* the last message received: its sender and its type
    wlog,         \* per client, what was sent to it and the pipeline calls
                  \* made for it, in order
    bpc,          \* where broadcast() is
    bstart,       \* the connections the set held when the iteration began
    bvisited,     \* the connections the iteration has yielded
    disconnected  \* broadcast's local set of the same name

wvars == <<active_connections, alive, wpc, wstep, nrecv, wmsg, wlog,
           bpc, bstart, bvisited, disconnected>>

(***************************************************************************)
(* AIAutomatorDaemon (daemon.py): start(), stop(), the signal handler and  *)
(* the four background tasks.                                              *)
(***************************************************************************)
VARIABLES
    dpc,        \* where start() is
    dhow,       \* how start() left its try block
    dstep,      \* the step of stop() that is next
    tstate,     \* per background task, its state
    loopflag,   \* per background task, the condition its loop tests
    signalled,  \* a SIGINT or SIGTERM was delivered
    closed      \* the calls of ContextManager.close() so far

dvars == <<dpc, dhow, dstep, tstate, loopflag, signalled, closed>>

(***************************************************************************)
(* HyprlandConnector.get_state and HyprlandConnector.dispatch called on    *)
(* their own.                                                              *)
(***************************************************************************)
VARIABLES
    hin,    \* get_state: what becomes of each of its five sub-commands
    hout,   \* get_state: the snapshot returned; <<>> before the call ends
    pin,    \* a hyprland_dispatch action and the compositor's response
    pout    \* the call of execute() for it; <<>> before it ends

hvars == <<hin, hout, pin, pout>>

(***************************************************************************)
(* _handle_file_read called on one file of any size.                       *)
(***************************************************************************)
VARIABLES
    rin,    \* the file: its bytes, and whether they decode as text
    rout    \* the call of execute() for it; <<>> before it ends

rvars == <<rin, rout>>

(***************************************************************************)
(* The context of one query: get_system_state, _build_ai_context and       *)
(* GeminiClient._build_prompt.                                             *)
(***************************************************************************)
VARIABLES
    kin,    \* what the ContextStore holds: keybindings and command-log entries
    kout    \* the context handed to process_query and the prompt built of it

kvars == <<kin, kout>>

(***************************************************************************)
(* HyprlandConnector.execute_command, step by step, call after call.       *)
(***************************************************************************)
VARIABLES
    spc,      \* where execute_command is
    sconns,   \* the connections opened on the command socket so far
    sopen,    \* those of them that are open on the connector's side
    sreply,   \* the bytes of the compositor's response, and those read
    sret,     \* what the call returned; <<>> while it runs
    scalls    \* the calls that have ended

svars == <<spc, sconns, sopen, sreply, sret, scalls>>

(***************************************************************************)
(* A query pipeline in flight on a push connection while the daemon shuts  *)
(* down, and the event loop of asyncio.run(main()).                        *)
(***************************************************************************)
VARIABLES
    ipc,      \* where the handler's process_user_query is
    ilog,     \* the appends to the ContextStore, each with whether the
              \* store was closed by then
    lstate,   \* the event loop: running, stopping once main() has ended,
              \* closed
    iran      \* the pipeline has run since main() ended

ivars == <<ipc, ilog, lstate, iran>>

\* the machines declared after the compositor link
nvars == <<rvars, kvars, svars, ivars>>

\* the machines declared after the file actions
evars == <<wvars, dvars, hvars, nvars>>

vars == <<qvars, lvars, mvars, xvars, fvars, evars>>

(***************************************************************************)
(* The query pipeline: daemon.process_user_query.                          *)
(* Every step ends at an await of the code (or at the return).             *)
(***************************************************************************)
EnvChoices == IF faults THEN Envs ELSE {"ok"}
StoreChoices == IF faults THEN BOOLEAN ELSE {TRUE}

Actions(q) == reply[q].actions
Current(q) == Actions(q)[idx[q] + 1]

\* process_user_query returns r
ReturnResult(q, r) ==
    /\ ret' = [ret EXCEPT ![q] = r]
    /\ pc' = [pc EXCEPT ![q] = "done"]

\* process_user_query is called (web/server.py line 143)
Submit(q) ==
    /\ q \in live
    /\ pc[q] = "idle"
    /\ \E s \in BOOLEAN : shot' = [shot EXCEPT ![q] = s]
    /\ pc' = [pc EXCEPT ![q] = "state"]
    /\ UNCHANGED <<menu, live, faults, reply, idx, results, ret, calls,
                   conversation, commands, current_state, lvars, mvars, xvars, fvars, evars>>

\* line 155: get_system_state().  SystemMonitor.get_state samples when
\* nothing is stored yet, and the sample may raise.
GetSystemState(q) ==
    /\ pc[q] = "state"
    /\ \E env \in EnvChoices :
         IF NeedsSample(current_state) /\ env # "ok"
         THEN /\ ReturnResult(q, ErrorResult("sample failed"))
              /\ UNCHANGED current_state
         ELSE /\ current_state' = IF NeedsSample(current_state)
                                  THEN GatherSystemState(1, AllOk)
                                  ELSE current_state
              /\ pc' = [pc EXCEPT ![q] = IF shot[q] THEN "shot" ELSE "model"]
              /\ UNCHANGED ret
    /\ UNCHANGED <<menu, live, faults, shot, reply, idx, results, calls,
                   conversation, commands, lvars, mvars, xvars, fvars, evars>>

\* lines 158-160: take_screenshot raises when grim fails
TakeScreenshot(q) ==
    /\ pc[q] = "shot"
    /\ \E env \in EnvChoices :
         IF env = "ok"
         THEN pc' = [pc EXCEPT ![q] = "model"] /\ UNCHANGED ret
         ELSE ReturnResult(q, ErrorResult("Screenshot failed: "))
    /\ UNCHANGED <<menu, live, faults, shot, reply, idx, results, calls,
                   conversation, commands, current_state, lvars, mvars, xvars, fvars, evars>>

\* lines 163-169 up to the for loop: the model client is called once and
\* its reply (or its own error reply) is taken; a reply whose 'actions' is
\* not a list makes _execute_ai_response raise.
ModelCall(q) ==
    /\ pc[q] = "model"
    /\ \E kind \in ReplyKinds, acts \in SeqUpTo(menu, MaxActions) :
         LET rep == ModelReply(kind, acts) IN
         /\ kind # "ok" => faults
         /\ kind \notin {"ok", "ok_no_explanation"} => acts = <<>>
         /\ reply' = [reply EXCEPT ![q] = rep]
         /\ IF rep.iterable
            THEN pc' = [pc EXCEPT ![q] = "loop"] /\ UNCHANGED ret
            ELSE ReturnResult(q, ErrorResult("TypeError"))
    /\ UNCHANGED <<menu, live, faults, shot, idx, results, calls,
                   conversation, commands, current_state, lvars, mvars, xvars, fvars, evars>>

\* One record of calls[q].
Call(i, a, look, pending, n, h, r) ==
    [i |-> i, action |-> a, look |-> look,
     state |-> IF pending THEN "pending"
               ELSE IF r.kind = "return" THEN "returned" ELSE "raised",
     spawned |-> n, handler |-> h, ret |-> r]

NoHandler == Return(Absent, 0)

\* The loop body with a break after a failed action.
Record_StopOnFailure(q, a, r) ==
    /\ results' = [results EXCEPT ![q] = AfterExecute(@, a, r, TRUE)]
    /\ commands' = commands
    /\ idx' = [idx EXCEPT ![q] = IF r.success THEN @ + 1 ELSE Len(Actions(q))]
    /\ pc' = [pc EXCEPT ![q] = "loop"]

\* lines 219-241 after execute() came back with r
Record(q, a, r) ==
    \E addOk \in StoreChoices :
      /\ results' = [results EXCEPT ![q] = AfterExecute(@, a, r, addOk \/ r.kind = "raise")]
      /\ commands' =
           IF r.kind = "return" /\ addOk
           THEN AddCommand(commands, q, idx[q] + 1, Str(a),
                           OkEntry(a, r).output, r.success)
           ELSE commands
      /\ idx' = [idx EXCEPT ![q] = @ + 1]
      /\ pc' = [pc EXCEPT ![q] =
                  IF r.kind = "return" /\ addOk THEN "sleep" ELSE "loop"]

\* line 218: execute(action) is called; it comes back at once when the type
\* is not registered, otherwise the handler is awaited.
BeginExecute(q) ==
    /\ pc[q] = "loop"
    /\ idx[q] < Len(Actions(q))
    /\ LET a == Current(q)
           i == idx[q] + 1 IN
       CASE Lookup(a) = "raise" ->
              /\ calls' = [calls EXCEPT ![q] =
                    Append(@, Call(i, a, "raise", FALSE, 0, NoHandler, Raised("TypeError")))]
              /\ Record(q, a, Raised("TypeError"))
         [] Lookup(a) = "reject" ->
              /\ calls' = [calls EXCEPT ![q] =
                    Append(@, Call(i, a, "reject", FALSE, 0, NoHandler, Rejected(a)))]
              /\ Record(q, a, Rejected(a))
         [] Lookup(a) = "call" ->
              /\ calls' = [calls EXCEPT ![q] =
                    Append(@, Call(i, a, "call", TRUE, 0, NoHandler, Raised(Absent)))]
              /\ pc' = [pc EXCEPT ![q] = "handler"]
              /\ UNCHANGED <<results, commands, idx>>
    /\ UNCHANGED <<menu, live, faults, shot, reply, ret, conversation,
                   current_state, lvars, mvars, xvars, fvars, evars>>

\* lines 61-71: the handler comes back, execute() wraps its outcome
FinishExecute(q) ==
    /\ pc[q] = "handler"
    /\ \E env \in EnvChoices :
         LET a == Current(q)
             h == Handle(a, env)
             r == Wrap(h) IN
         /\ calls' = [calls EXCEPT ![q][Len(calls[q])] =
                         Call(idx[q] + 1, a, "call", FALSE, h.spawned, h, r)]
         /\ Record(q, a, r)
    /\ UNCHANGED <<menu, live, faults, shot, reply, ret, conversation,
                   current_state, lvars, mvars, xvars, fvars, evars>>

\* the delay between two actions, with the model asked again after it
Sleep_AskAgain(q) ==
    /\ pc[q] = "sleep"
    /\ pc' = [pc EXCEPT ![q] = "model"]
    /\ UNCHANGED <<menu, live, faults, shot, reply, idx, results, ret, calls,
                   conversation, commands, current_state, lvars, mvars, xvars, fvars, evars>>

\* line 233: the delay between two actions
Sleep(q) ==
    /\ pc[q] = "sleep"
    /\ pc' = [pc EXCEPT ![q] = "loop"]
    /\ UNCHANGED <<menu, live, faults, shot, reply, idx, results, ret, calls,
                   conversation, commands, current_state, lvars, mvars, xvars, fvars, evars>>

\* The end of process_user_query with a suspension between the two appends.
Finish_AwaitBetween(q) ==
    /\ \/ /\ pc[q] = "loop"
          /\ idx[q] = Len(Actions(q))
          /\ conversation' = AddConversation(conversation, q, q, "user")
          /\ pc' = [pc EXCEPT ![q] = "turn"]
          /\ UNCHANGED ret
       \/ /\ pc[q] = "turn"
          /\ conversation' = AddConversation(conversation, q,
                                 Dumps(QueryResult(reply[q], results[q])), "assistant")
          /\ ReturnResult(q, QueryResult(reply[q], results[q]))
    /\ UNCHANGED <<menu, live, faults, shot, reply, idx, results, calls,
                   commands, current_state, lvars, mvars, xvars, fvars, evars>>

\* lines 243-248 and 172-175: the result is built, the two conversation
\* turns are appended and the result is returned, with no await in between.
\* An append that raises sends process_user_query to its except branch.
Finish(q) ==
    /\ pc[q] = "loop"
    /\ idx[q] = Len(Actions(q))
    /\ LET r == QueryResult(reply[q], results[q])
           user == AddConversation(conversation, q, q, "user") IN
       \E userOk \in StoreChoices, asstOk \in StoreChoices :
         /\ ~userOk => asstOk
         /\ conversation' =
              IF ~userOk THEN conversation
              ELSE IF ~asstOk THEN user
              ELSE AddConversation(user, q, Dumps(r), "assistant")
         /\ ReturnResult(q, IF userOk /\ asstOk THEN r
                            ELSE ErrorResult("add_conversation failed"))
    /\ UNCHANGED <<menu, live, faults, shot, reply, idx, results, calls,
                   commands, current_state, lvars, mvars, xvars, fvars, evars>>

QInit(ms, l, f) ==
    /\ menu \in ms
    /\ live = l
    /\ faults \in f
    /\ pc = [q \in Queries |-> "idle"]
    /\ shot = [q \in Queries |-> FALSE]
    /\ reply = [q \in Queries |-> NoReply]
    /\ idx = [q \in Queries |-> 0]
    /\ results = [q \in Queries |-> <<>>]
    /\ ret = [q \in Queries |-> NoResult]
    /\ calls = [q \in Queries |-> <<>>]
    /\ conversation = <<>>
    /\ commands = <<>>
    /\ current_state \in {NoSnapshot, EarlierSnapshot}

\* The file system before the first action: the home directory /u, its
\* sibling /u2, and /etc, with a file in each of the last two.
InitialDirs == {<<>>, <<"u">>, <<"u2">>, <<"etc">>}
InitialFiles == [r \in {<<"etc", "x">>, <<"u2", "x">>} |-> <<"a">>]

\* no file action is dispatched
FIdle ==
    /\ fpath = EmptyPath
    /\ ftexts = {}
    /\ files = InitialFiles
    /\ dirs = InitialDirs
    /\ fcall = <<>>
    /\ written = <<>>

\* The clients of the push channel; each is one connection.
Clients == {"w1", "w2"}

\* no client has connected and broadcast is not called
WIdle ==
    /\ active_connections = {}
    /\ alive = {}
    /\ wpc = [c \in Clients |-> "none"]
    /\ wstep = [c \in Clients |-> 0]
    /\ nrecv = 0
    /\ wmsg = [from |-> "none", type |-> "none"]
    /\ wlog = [c \in Clients |-> <<>>]
    /\ bpc = "idle"
    /\ bstart = {}
    /\ bvisited = {}
    /\ disconnected = {}

\* lines 72-75, in the order of self.tasks
Tasks == <<"hyprland_events", "system_monitor", "web_server", "context_updater">>
TaskNames == {Tasks[i] : i \in 1..Len(Tasks)}

\* the daemon is constructed and not started
DIdle ==
    /\ dpc = "init"
    /\ dhow = "none"
    /\ dstep = 0
    /\ tstate = [t \in TaskNames |-> "none"]
    /\ loopflag = [t \in TaskNames |-> FALSE]
    /\ signalled = FALSE
    /\ closed = 0

\* neither get_state nor dispatch of the compositor link is called
HIdle ==
    /\ hin = <<>>
    /\ hout = <<>>
    /\ pin = <<>>
    /\ pout = <<>>

RIdle ==
    /\ rin = <<>>
    /\ rout = <<>>

KIdle ==
    /\ kin = <<>>
    /\ kout = <<>>

SIdle ==
    /\ spc = "idle"
    /\ sconns = 0
    /\ sopen = {}
    /\ sreply = [len |-> 0, read |-> 0]
    /\ sret = <<>>
    /\ scalls = 0

IIdle ==
    /\ ipc = "none"
    /\ ilog = <<>>
    /\ lstate = "running"
    /\ iran = FALSE

NIdle == RIdle /\ KIdle /\ SIdle /\ IIdle

EIdle == WIdle /\ DIdle /\ HIdle /\ NIdle

\* no execute action is dispatched on its own
XIdle ==
    /\ xin = [command |-> <<>>, wait |-> TRUE, terminal |-> FALSE]
    /\ xcall = <<>>

MIdle ==
    /\ mpc = "init"
    /\ gpc = [c \in Callers |-> "idle"]
    /\ sampled = 0
    /\ inflight = [p \in Procs |-> 0]
    /\ stores = 0
    /\ probed = AllOk
    /\ errors = 0
    /\ returned = <<>>

LIdle ==
    /\ running = FALSE
    /\ lpc = "init"
    /\ emitted = 0
    /\ torn = [cut |-> "none", id |-> 0, name |-> ""]
    /\ chunk = <<>>
    /\ cbIdx = 0
    /\ event_callbacks = <<>>
    /\ received = <<>>
    /\ handled = <<>>
    /\ regAt = <<>>
    /\ failed = <<>>

QNext ==
    \E q \in Queries :
       \/ Submit(q)
       \/ GetSystemState(q)
       \/ TakeScreenshot(q)
       \/ ModelCall(q)
       \/ BeginExecute(q)
       \/ FinishExecute(q)
       \/ Sleep(q)
       \/ Finish(q)

\* One query, any action of the full menu.
Init == QInit({FullMenu}, {"q1"}, BOOLEAN) /\ LIdle /\ MIdle /\ XIdle /\ FIdle /\ EIdle
Spec == Init /\ [][QNext]_vars

\* Two queries in flight at once.
InitConc == QInit(LeanMenus, Queries, {FALSE}) /\ LIdle /\ MIdle /\ XIdle /\ FIdle /\ EIdle
SpecConc == InitConc /\ [][QNext]_vars


(***************************************************************************)
(* The event listener: HyprlandConnector.start_event_listener and          *)
(* _handle_event.  The compositor writes records NAME>>DATA\n on the       *)
(* event socket; record n carries the payload n.  A read returns whole     *)
(* records and, where the chunk boundary falls inside a record, the        *)
(* record's head; its tail opens the next chunk.                           *)
(***************************************************************************)
\* Records the compositor writes in one run.
MaxEvents == 3
\* Whole records one read can return.
MaxChunk == 2
\* Observers that can be registered.
MaxObservers == 2

\* The vendor event names the compositor writes, record after record: three
\* that event_map knows and one it does not.
WireNames == <<"workspace", "openwindow", "activewindow", "custom">>
WireName(n) == WireNames[((n - 1) % Len(WireNames)) + 1]

\* Where a chunk boundary can fall inside a record: in the name, inside the
\* '>>' separator, or in the payload.
Cuts == {"name", "sep", "data"}
NoTorn == [cut |-> "none", id |-> 0, name |-> ""]

\* A line of a decoded chunk: sep tells whether it contains '>>', full
\* whether name and payload are those of the whole record.
Line(n, nm, sep, full) == [id |-> n, name |-> nm, sep |-> sep, full |-> full]

\* the part of a cut record that ends a chunk
HeadLine(cut, n, nm) ==
    IF cut = "data" THEN Line(n, nm, TRUE, FALSE) ELSE Line(n, "", FALSE, FALSE)

\* the part of a cut record that opens the next chunk
TailLine(t) ==
    IF t.cut = "name" THEN Line(t.id, "~" \o t.name, TRUE, FALSE)
    ELSE Line(t.id, "", FALSE, FALSE)

RECURSIVE Reverse(_)
Reverse(sq) == IF sq = <<>> THEN <<>> ELSE Append(Reverse(Tail(sq)), Head(sq))

\* the lines of a chunk, last line first
ParseLines_Reversed(t, whole, cut, n, nm) ==
    Reverse((IF t.cut = "none" THEN <<>> ELSE <<TailLine(t)>>) \o whole
            \o (IF cut = "none" THEN <<>> ELSE <<HeadLine(cut, n, nm)>>))

\* line 60: data.decode('utf-8').strip().split('\n') of a chunk that opens
\* with the tail of torn record t, holds the records `whole` and ends with
\* the head of record n cut at `cut`
ParseLines(t, whole, cut, n, nm) ==
    (IF t.cut = "none" THEN <<>> ELSE <<TailLine(t)>>) \o whole
    \o (IF cut = "none" THEN <<>> ELSE <<HeadLine(cut, n, nm)>>)

\* lines 77-90: event_map.get(event, event)
EventMap(name) ==
    CASE name = "workspace" -> "workspace_changed"
      [] name = "focusedmon" -> "monitor_changed"
      [] name = "activewindow" -> "window_focused"
      [] name = "openwindow" -> "window_opened"
      [] name = "closewindow" -> "window_closed"
      [] name = "movewindow" -> "window_moved"
      [] name = "activewindowv2" -> "window_activated"
      [] name = "fullscreen" -> "fullscreen_changed"
      [] name = "monitoradded" -> "monitor_added"
      [] name = "monitorremoved" -> "monitor_removed"
      [] OTHER -> name

\* what a callback is called with
Event(l) == [id |-> l.id, type |-> EventMap(l.name), full |-> l.full]

\* a for loop that stops at the first callback that raises
NextCallback_Break(raised, k) ==
    IF raised THEN Len(event_callbacks) + 1 ELSE k + 1

\* lines 94-98: the callback at position k has come back; the position the
\* for loop goes to
NextCallback(raised, k) == k + 1

\* the while conditions of lines 49 and 54
OuterLoop == IF running THEN "connect" ELSE "done"
\* an inner loop that does not look at self.running
InnerLoop_Forever == "read"
InnerLoop == IF running THEN "read" ELSE "close"

\* the connection is gone: what was torn stays unread
Drop == torn' = NoTorn /\ chunk' = <<>>

\* line 46
Start ==
    /\ lpc = "init"
    /\ running' = TRUE
    /\ lpc' = "connect"
    /\ UNCHANGED <<emitted, torn, chunk, cbIdx, event_callbacks, received,
                   handled, regAt, failed, qvars, mvars, xvars, fvars, evars>>

\* line 51
Connect ==
    /\ lpc = "connect"
    /\ \E ok \in BOOLEAN :
         /\ lpc' = IF ok THEN InnerLoop ELSE "backoff"
    /\ UNCHANGED <<running, emitted, torn, chunk, cbIdx, event_callbacks,
                   received, handled, regAt, failed, qvars, mvars, xvars, fvars, evars>>

\* lines 55-60: a read returns data
ReadData ==
    /\ lpc = "read"
    /\ \E k \in 0..MaxChunk, cut \in Cuts \cup {"none"} :
         LET used == k + (IF cut = "none" THEN 0 ELSE 1)
             whole == [j \in 1..k |->
                         Line(emitted + j, WireName(emitted + j), TRUE, TRUE)]
             n == emitted + k + 1 IN
         /\ emitted + used <= MaxEvents
         /\ used > 0 \/ torn.cut # "none"
         /\ chunk' = ParseLines(torn, whole, cut, n, WireName(n))
         /\ torn' = IF cut = "none" THEN NoTorn
                    ELSE [cut |-> cut, id |-> n, name |-> WireName(n)]
         /\ emitted' = emitted + used
    /\ lpc' = "lines"
    /\ UNCHANGED <<running, cbIdx, event_callbacks, received, handled,
                   regAt, failed, qvars, mvars, xvars, fvars, evars>>

\* lines 56-57 and 66: end of stream
ReadEOF ==
    /\ lpc = "read"
    /\ lpc' = "close"
    /\ Drop
    /\ UNCHANGED <<running, emitted, cbIdx, event_callbacks, received,
                   handled, regAt, failed, qvars, mvars, xvars, fvars, evars>>

\* lines 55, 60 and 71-73: read() or decode() raises
ReadError ==
    /\ lpc = "read"
    /\ lpc' = "backoff"
    /\ Drop
    /\ UNCHANGED <<running, emitted, cbIdx, event_callbacks, received,
                   handled, regAt, failed, qvars, mvars, xvars, fvars, evars>>

\* lines 61-64 and 90-96: the next line of the chunk; a line with '>>' is
\* handed to _handle_event, which calls the first callback
NextLine ==
    /\ lpc = "lines"
    /\ chunk # <<>>
    /\ chunk' = Tail(chunk)
    /\ LET l == Head(chunk) IN
       IF l.sep
       THEN /\ handled' = Append(handled, Event(l))
            /\ IF event_callbacks = <<>>
               THEN UNCHANGED <<lpc, cbIdx, received>>
               ELSE /\ lpc' = "callback"
                    /\ cbIdx' = 1
                    /\ received' = [received EXCEPT ![1] = Append(@, Event(l))]
       ELSE UNCHANGED <<handled, lpc, cbIdx, received>>
    /\ UNCHANGED <<running, emitted, torn, event_callbacks, regAt, failed, qvars, mvars, xvars, fvars, evars>>

\* line 54: the chunk is done
EndChunk ==
    /\ lpc = "lines"
    /\ chunk = <<>>
    /\ lpc' = InnerLoop
    /\ UNCHANGED <<running, emitted, torn, chunk, cbIdx, event_callbacks,
                   received, handled, regAt, failed, qvars, mvars, xvars, fvars, evars>>

\* lines 94-98: a callback comes back, by return or by raising; the next
\* one is called, or the for loop is over (cbIdx = 0)
CallbackDone ==
    /\ lpc = "callback"
    /\ \E raised \in BOOLEAN :
         LET k == NextCallback(raised, cbIdx) IN
         /\ failed' = IF raised /\ failed[cbIdx] = 0
                      THEN [failed EXCEPT ![cbIdx] = Len(handled)] ELSE failed
         /\ IF k <= Len(event_callbacks)
            THEN /\ received' = [received EXCEPT ![k] = Append(@, handled[Len(handled)])]
                 /\ cbIdx' = k
                 /\ UNCHANGED lpc
            ELSE /\ lpc' = "lines"
                 /\ cbIdx' = 0
                 /\ UNCHANGED received
    /\ UNCHANGED <<running, emitted, torn, chunk, event_callbacks, handled,
                   regAt, qvars, mvars, xvars, fvars, evars>>

\* lines 66-67
Close ==
    /\ lpc = "close"
    /\ \E ok \in BOOLEAN :
         /\ lpc' = IF ok THEN OuterLoop ELSE "backoff"
    /\ Drop
    /\ UNCHANGED <<running, emitted, cbIdx, event_callbacks, received,
                   handled, regAt, failed, qvars, mvars, xvars, fvars, evars>>

\* a listener that gives up after the backoff
Backoff_GiveUp ==
    /\ lpc = "backoff"
    /\ lpc' = "done"
    /\ UNCHANGED <<running, emitted, torn, chunk, cbIdx, event_callbacks,
                   received, handled, regAt, failed, qvars, mvars, xvars, fvars, evars>>

\* line 73
Backoff ==
    /\ lpc = "backoff"
    /\ lpc' = OuterLoop
    /\ UNCHANGED <<running, emitted, torn, chunk, cbIdx, event_callbacks,
                   received, handled, regAt, failed, qvars, mvars, xvars, fvars, evars>>

\* lines 69-70: the task is cancelled while it awaits; a delivery under way
\* ends there.  The listener ends as "cancelled", not by its while
\* condition ("done").
Cancel ==
    /\ lpc \in {"connect", "read", "callback", "close", "backoff"}
    /\ lpc' = "cancelled"
    /\ cbIdx' = 0
    /\ Drop
    /\ UNCHANGED <<running, emitted, event_callbacks, received, handled, regAt,
                   failed, qvars, mvars, xvars, fvars, evars>>

\* lines 104-106
Stop ==
    /\ running' = FALSE
    /\ UNCHANGED <<lpc, emitted, torn, chunk, cbIdx, event_callbacks,
                   received, handled, regAt, failed, qvars, mvars, xvars, fvars, evars>>

\* lines 100-102.  An observer registered while an event is being delivered
\* is reached by the for loop of that delivery.
RegisterEventCallback ==
    /\ Len(event_callbacks) < MaxObservers
    /\ event_callbacks' = Append(event_callbacks, Len(event_callbacks) + 1)
    /\ received' = Append(received, <<>>)
    /\ regAt' = Append(regAt, IF lpc = "callback" THEN Len(handled) - 1
                              ELSE Len(handled))
    /\ failed' = Append(failed, 0)
    /\ UNCHANGED <<running, lpc, emitted, torn, chunk, cbIdx, handled, qvars, mvars, xvars, fvars, evars>>

QIdle == QInit({FullMenu}, {}, {FALSE}) /\ current_state = NoSnapshot

LNext ==
    \/ Start
    \/ Connect
    \/ ReadData
    \/ ReadEOF
    \/ ReadError
    \/ NextLine
    \/ EndChunk
    \/ CallbackDone
    \/ Close
    \/ Backoff
    \/ Cancel
    \/ Stop
    \/ RegisterEventCallback

InitListener == LIdle /\ QIdle /\ MIdle /\ XIdle /\ FIdle /\ EIdle
SpecListener == InitListener /\ [][LNext]_vars

\* The listener under the scheduling of the event loop: an await that can
\* complete does complete (the connect, the read, the close, the backoff
\* sleep), and the loop goes on to its next line.  stop(), cancellation and
\* what the read returns stay free.
ReadDone == ReadData \/ ReadEOF \/ ReadError
ListenerFairness ==
    /\ WF_vars(Connect)
    /\ WF_vars(ReadDone)
    /\ WF_vars(NextLine)
    /\ WF_vars(EndChunk)
    /\ WF_vars(Close)
    /\ WF_vars(Backoff)

\* The listener as the daemon runs it (daemon.py line 72): nothing registers
\* an observer, so _handle_event has no callback to await.
LNextDaemon ==
    \/ Start
    \/ Connect
    \/ ReadData
    \/ ReadEOF
    \/ ReadError
    \/ NextLine
    \/ EndChunk
    \/ Close
    \/ Backoff
    \/ Cancel
    \/ Stop
SpecListenerFair == InitListener /\ [][LNextDaemon]_vars /\ ListenerFairness

(***************************************************************************)
(* The SystemMonitor: start_monitoring and get_state.  A sample            *)
(* (_gather_system_state) takes its timestamp and the psutil readings when *)
(* it is called and then awaits its external probes; it ends by returning  *)
(* the snapshot, or by raising when a reading outside the sub-probes'      *)
(* try/except fails.                                                       *)
(***************************************************************************)
\* _gather_system_state calls in one run.
MaxSamples == 3
\* get_state calls in one run.
MaxCalls == 3

\* One ended get_state call: whether a snapshot was stored when it was
\* called and which, how many samples it took, whether it raised, what it
\* returned, and the number of stores at its return.
GetStateCall(c, before, n, raised, snap, st) ==
    [caller |-> c, before |-> before, samples |-> n, raised |-> raised,
     snap |-> snap, stores |-> st]

\* everything but the monitor is idle
Others == <<menu, live, faults, pc, shot, reply, idx, results, ret, calls,
            conversation, commands, lvars, xvars, fvars, evars>>

\* the outcomes the sub-probes of a sample can have
ProbeChoices == IF faults THEN ProbeEnvs ELSE {AllOk}

\* a sample is called by p
BeginSample(p) ==
    /\ sampled < MaxSamples
    /\ sampled' = sampled + 1
    /\ inflight' = [inflight EXCEPT ![p] = sampled + 1]

\* the sample of p has returned the snapshot snap, taken under e, and it
\* is assigned to current_state
Store(p, snap, e) ==
    /\ current_state' = snap
    /\ stores' = stores + 1
    /\ probed' = e
    /\ inflight' = [inflight EXCEPT ![p] = 0]

\* lines 27-32: the loop begins with its first sample
StartMonitoring ==
    /\ mpc = "init"
    /\ BeginSample("loop")
    /\ mpc' = "sample"
    /\ UNCHANGED <<current_state, gpc, stores, probed, errors, returned, Others>>

\* lines 32-38: the loop's sample ends; the snapshot is stored, or the
\* error is logged; then the loop sleeps
MonitorSampled ==
    /\ mpc = "sample"
    /\ \E ok \in BOOLEAN, e \in ProbeChoices :
         IF ok
         THEN /\ Store("loop", GatherSystemState(inflight["loop"], e), e)
              /\ UNCHANGED errors
         ELSE /\ current_state' = AfterFailedSample(current_state)
              /\ errors' = errors + 1
              /\ inflight' = [inflight EXCEPT !["loop"] = 0]
              /\ e = AllOk
              /\ UNCHANGED <<stores, probed>>
    /\ mpc' = "sleep"
    /\ UNCHANGED <<gpc, sampled, returned, Others>>

\* lines 33 and 38, then 30-32: the interval is over, the next sample
\* begins
MonitorWake ==
    /\ mpc = "sleep"
    /\ BeginSample("loop")
    /\ mpc' = "sample"
    /\ UNCHANGED <<current_state, gpc, stores, probed, errors, returned, Others>>

\* lines 34-35: the task is cancelled while it awaits
MonitorCancel ==
    /\ mpc \in {"sample", "sleep"}
    /\ mpc' = "cancelled"
    /\ inflight' = [inflight EXCEPT !["loop"] = 0]
    /\ UNCHANGED <<current_state, gpc, sampled, stores, probed, errors, returned,
                   Others>>

CallsBegun == Len(returned) + Cardinality({c \in Callers : gpc[c] = "sample"})

\* lines 40-44: get_state is called; with a snapshot stored it returns it
\* at once, otherwise it calls a sample
GetState(c) ==
    /\ c \in live
    /\ gpc[c] = "idle"
    /\ CallsBegun < MaxCalls
    /\ IF NeedsSample(current_state)
       THEN /\ BeginSample(c)
            /\ gpc' = [gpc EXCEPT ![c] = "sample"]
            /\ UNCHANGED returned
       ELSE /\ returned' = Append(returned,
                   GetStateCall(c, current_state, 0, FALSE, current_state, stores))
            /\ UNCHANGED <<gpc, sampled, inflight>>
    /\ UNCHANGED <<current_state, mpc, stores, probed, errors, Others>>

\* lines 43-44: the sample of get_state ends; the snapshot is stored and
\* returned, or the error leaves get_state
GetStateSampled(c) ==
    /\ gpc[c] = "sample"
    /\ \E ok \in BOOLEAN, e \in ProbeChoices :
         LET snap == GatherSystemState(inflight[c], e) IN
         IF ok
         THEN /\ Store(c, snap, e)
              /\ returned' = Append(returned,
                     GetStateCall(c, NoSnapshot, 1, FALSE, snap, stores + 1))
         ELSE /\ returned' = Append(returned,
                     GetStateCall(c, NoSnapshot, 1, TRUE, NoSnapshot, stores))
              /\ inflight' = [inflight EXCEPT ![c] = 0]
              /\ e = AllOk
              /\ UNCHANGED <<current_state, stores, probed>>
    /\ gpc' = [gpc EXCEPT ![c] = "idle"]
    /\ UNCHANGED <<mpc, sampled, errors, Others>>

MNext ==
    \/ StartMonitoring
    \/ MonitorSampled
    \/ MonitorWake
    \/ MonitorCancel
    \/ \E c \in Callers :
         \/ GetState(c)
         \/ GetStateSampled(c)

\* The monitor loop and two concurrent callers of get_state; the sub-probes
\* succeed, a sample as a whole may raise.
InitMonitor == QInit({FullMenu}, Queries, {FALSE}) /\ current_state = NoSnapshot
               /\ LIdle /\ MIdle /\ XIdle /\ FIdle /\ EIdle
SpecMonitor == InitMonitor /\ [][MNext]_vars

\* The monitor loop and one caller of get_state, with failing sub-probes.
InitProbes == QInit({FullMenu}, {"q1"}, {TRUE}) /\ current_state = NoSnapshot
              /\ LIdle /\ MIdle /\ XIdle /\ FIdle /\ EIdle
SpecProbes == InitProbes /\ [][MNext]_vars

(***************************************************************************)
(* execute() called with one execute action: the membership test finds     *)
(* the handler, the handler runs, its outcome is wrapped.                  *)
(***************************************************************************)
ExecuteCommand ==
    /\ xcall = <<>>
    /\ \E env \in Envs, probes \in 1..NumTerminals :
         LET a == Act("execute", "command")
             h == HandleExecute(xin.command, xin.wait, xin.terminal, env, probes) IN
         xcall' = <<Call(1, a, Lookup(a), FALSE, h.spawned, h, Wrap(h))>>
    /\ UNCHANGED <<xin, qvars, lvars, mvars, fvars, evars>>

InitExecute ==
    /\ xin \in [command : Commands, wait : BOOLEAN, terminal : BOOLEAN]
    /\ xcall = <<>>
    /\ QIdle /\ LIdle /\ MIdle /\ FIdle /\ EIdle
SpecExecute == InitExecute /\ [][ExecuteCommand]_vars

(***************************************************************************)
(* The file actions: execute() with a file_write or a file_read action on  *)
(* the path of the run, any number of times, in any order.                 *)
(***************************************************************************)
Chars == {"a", "LF", "CR"}
Contents == UNION { [1..k -> Chars] : k \in 0..MaxContent }

\* the outcomes of the operating system for a file operation
FileEnvs == {"ok", "oserror"}

FEnded(op, content, h) == <<[op |-> op, content |-> content, ret |-> Wrap(h)]>>

FileWrite ==
    /\ \E content \in ftexts, env \in FileEnvs :
         LET did == HandleFileWrite(fpath, content, env, files, dirs) IN
         /\ files' = did.files
         /\ dirs' = did.dirs
         /\ fcall' = FEnded("file_write", content, did.h)
         /\ written' = IF did.h.raised THEN written ELSE <<content>>
    /\ UNCHANGED <<fpath, ftexts, qvars, lvars, mvars, xvars, evars>>

FileRead ==
    /\ ftexts # {}
    /\ \E env \in FileEnvs :
         LET did == HandleFileRead(fpath, env, files, dirs) IN
         /\ files' = did.files
         /\ dirs' = did.dirs
         /\ fcall' = FEnded("file_read", <<>>, did.h)
    /\ UNCHANGED <<fpath, ftexts, written, qvars, lvars, mvars, xvars, evars>>

FNext == FileWrite \/ FileRead

FInit(paths, texts) ==
    /\ fpath \in paths
    /\ ftexts = texts
    /\ files = InitialFiles
    /\ dirs = InitialDirs
    /\ fcall = <<>>
    /\ written = <<>>
    /\ QIdle /\ LIdle /\ MIdle /\ XIdle /\ EIdle

\* where the file of the run is
Target == Resolve(Expanduser(fpath))
UnderHome(at) == StartsWith(at, Home.parts)

\* every path, one content
InitPaths == FInit(Paths, {<<"a">>})
SpecPaths == InitPaths /\ [][FNext]_vars

\* the short paths to a file under the home directory, every content
HomePaths == { p \in Paths : Len(p.parts) <= 2 /\ UnderHome(Resolve(Expanduser(p))) }
InitRoundTrip == FInit(HomePaths, Contents)
SpecRoundTrip == InitRoundTrip /\ [][FNext]_vars

(***************************************************************************)
(* A file_read action on one existing file of any size.                    *)
(***************************************************************************)
RestN == <<qvars, lvars, mvars, xvars, fvars, wvars, dvars, hvars>>

ReadLargeFile ==
    /\ rout = <<>>
    /\ rout' = <<Wrap(ReadWithinCaps(rin.data, rin.env))>>
    /\ UNCHANGED <<rin, RestN, kvars, svars, ivars>>

InitCaps ==
    /\ rin \in [data : RunData, env : {"ok", "undecodable"}]
    /\ rout = <<>>
    /\ QIdle /\ LIdle /\ MIdle /\ XIdle /\ FIdle /\ WIdle /\ DIdle /\ HIdle /\ KIdle /\ SIdle /\ IIdle
SpecCaps == InitCaps /\ [][ReadLargeFile]_vars

(***************************************************************************)
(* The context of a query.  The ContextStore is not part of the sources:   *)
(* GetKeybindings returns the ordered sequence it holds, GetRecentCommands *)
(* the newest entries first, at most limit of them.  A keybinding and a    *)
(* command-log entry stand for themselves by their number.                 *)
(***************************************************************************)
\* Keybindings in the largest store.
MaxKeybindings == 22
\* Entries in the longest command log.
MaxLogged == 12

GetKeybindings(stored) == [i \in 1..stored |-> i]

GetRecentCommands(logged, limit) ==
    [i \in 1..(IF logged < limit THEN logged ELSE limit) |-> logged + 1 - i]

\* daemon.py lines 129-138: the two lists of the state
SystemStateLists(store) ==
    [keybindings |-> GetKeybindings(store.keybindings),
     recent_commands |-> GetRecentCommands(store.commands, 10)]

\* daemon.py lines 185-205: the two lists of the context
BuildAiContext(system_state) ==
    [keybindings |-> system_state.keybindings,
     recent_activity |-> system_state.recent_commands]

\* gemini_client.py lines 219-231 and 233-244: the entries that get a line
FormatKeybindings(keybindings) == Truncate(keybindings, 15)
FormatRecentCommands(recent) == Truncate(recent, 5)

\* gemini_client.py lines 186-217: the entries the prompt shows
BuildPrompt(context) ==
    [keybindings |-> FormatKeybindings(Truncate(context.keybindings, 20)),
     recent_commands |-> FormatRecentCommands(Truncate(context.recent_activity, 5))]

\* process_user_query from get_system_state to the prompt of process_query
AssembleContext ==
    /\ kout = <<>>
    /\ LET context == BuildAiContext(SystemStateLists(kin)) IN
       kout' = <<[context |-> context, prompt |-> BuildPrompt(context)]>>
    /\ UNCHANGED <<kin, RestN, rvars, svars, ivars>>

InitContext ==
    /\ kin \in [keybindings : 0..MaxKeybindings, commands : 0..MaxLogged]
    /\ kout = <<>>
    /\ QIdle /\ LIdle /\ MIdle /\ XIdle /\ FIdle /\ WIdle /\ DIdle /\ HIdle /\ RIdle /\ SIdle /\ IIdle
SpecContext == InitContext /\ [][AssembleContext]_vars

(***************************************************************************)
(* The command socket: execute_command from open_unix_connection to its    *)
(* return.  The compositor writes its response in one or more pieces; a    *)
(* read returns what has arrived, at most the number of bytes asked for.   *)
(***************************************************************************)
\* Calls of execute_command in a run.
MaxRequests == 2

\* line 125: reader.read(8192)
ReadSize == 8192

ReplyLengths == {1, 4096, 8191, 8192, 8193, 16384}
\* the bytes that have arrived when the read returns
Arrived(len) == { n \in {1, 4096, 8192, len} : n <= len }

RestS == <<RestN, rvars, kvars, ivars>>

\* line 119
OpenConnection ==
    /\ spc = "idle" /\ scalls < MaxRequests
    /\ \/ /\ sconns' = sconns + 1
          /\ sopen' = sopen \cup {sconns + 1}
          /\ spc' = "write"
          /\ sret' = <<>>
       \/ /\ spc' = "done"
          /\ sret' = <<[kind |-> "error", bytes |-> 0]>>
          /\ UNCHANGED <<sconns, sopen>>
    /\ sreply' = [len |-> 0, read |-> 0]
    /\ UNCHANGED <<scalls, RestS>>

\* the handler of line 133: the error is returned as JSON, nothing is closed
Failed ==
    /\ spc' = "done"
    /\ sret' = <<[kind |-> "error", bytes |-> 0]>>
    /\ UNCHANGED <<sconns, sopen, sreply, scalls, RestS>>

\* lines 122-123
WriteCommand ==
    /\ spc = "write"
    /\ \/ /\ spc' = "read"
          /\ UNCHANGED <<sconns, sopen, sreply, sret, scalls, RestS>>
       \/ Failed

\* line 125
ReadResponse ==
    /\ spc = "read"
    /\ \/ \E len \in ReplyLengths : \E n \in Arrived(len) :
            /\ sreply' = [len |-> len, read |-> IF n < ReadSize THEN n ELSE ReadSize]
            /\ spc' = "close"
            /\ UNCHANGED <<sconns, sopen, sret, scalls, RestS>>
       \/ Failed

\* lines 127-130
CloseAndReturn ==
    /\ spc = "close"
    /\ sopen' = sopen \ {sconns}
    /\ spc' = "done"
    /\ sret' = <<[kind |-> "response", bytes |-> sreply.read]>>
    /\ UNCHANGED <<sconns, sreply, scalls, RestS>>

\* the caller has the value; the next call may begin
CallEnded ==
    /\ spc = "done"
    /\ spc' = "idle"
    /\ scalls' = scalls + 1
    /\ UNCHANGED <<sconns, sopen, sreply, sret, RestS>>

SNext ==
    \/ OpenConnection
    \/ WriteCommand
    \/ ReadResponse
    \/ CloseAndReturn
    \/ CallEnded

InitSocket ==
    /\ SIdle
    /\ QIdle /\ LIdle /\ MIdle /\ XIdle /\ FIdle /\ WIdle /\ DIdle /\ HIdle /\ RIdle /\ KIdle /\ IIdle
SpecSocket == InitSocket /\ [][SNext]_vars

(***************************************************************************)
(* The push channel: WebServer._handle_websocket for each client and       *)
(* WebServer.broadcast, interleaved at their awaits.                       *)
(***************************************************************************)
\* Messages the clients send.
MaxMessages == 2

\* data.get('type') of a message that is a JSON object; "other" is any
\* other value, a missing 'type' included
MessageTypes == {"query", "ping", "get_state", "other"}

\* a text that is not JSON, or JSON that is not an object
Malformed == "<malformed>"

\* the if/elif chain of lines 131-159 with an else branch that raises
Branch_Strict(message_type) ==
    IF message_type \in {"query", "ping", "get_state"} THEN message_type ELSE "raise"

\* the if/elif chain of lines 131-159: no else branch
Branch(message_type) ==
    IF message_type \in {"query", "ping", "get_state"} THEN message_type ELSE "ignore"

\* the query branch with the pipeline awaited before the acknowledgment
QuerySteps_AckLate == <<"invoke", "processing", "result">>

\* lines 137-149: send 'processing', await process_user_query, send 'result'
QuerySteps == <<"processing", "invoke", "result">>

\* the pong sent to every connection
PongTo_All(c, connections) == connections

\* line 152: the connections the pong is sent to
PongTo(c, connections) == {c}

Logged(cs, m) == [d \in Clients |-> IF d \in cs THEN Append(wlog[d], m) ELSE wlog[d]]

BVars == <<bpc, bstart, bvisited, disconnected>>
RestW == <<qvars, lvars, mvars, xvars, fvars, dvars, hvars, nvars>>

\* the handler suspended between active_connections.add and the welcome
Accept_WelcomeLater(c) ==
    /\ \/ /\ wpc[c] = "none"
          /\ alive' = alive \cup {c}
          /\ active_connections' = active_connections \cup {c}
          /\ wpc' = [wpc EXCEPT ![c] = "welcome"]
          /\ UNCHANGED wlog
       \/ /\ wpc[c] = "welcome"
          /\ wlog' = Logged({c}, "connected")
          /\ wpc' = [wpc EXCEPT ![c] = "recv"]
          /\ UNCHANGED <<alive, active_connections>>
    /\ UNCHANGED <<wstep, nrecv, wmsg, BVars, RestW>>

\* lines 113-123: websocket.accept() returns, active_connections.add, the
\* welcome message is sent; or the client is gone by then, the send raises
\* and the finally clause discards the connection again
Accept(c) ==
    /\ wpc[c] = "none"
    /\ \/ /\ alive' = alive \cup {c}
          /\ active_connections' = active_connections \cup {c}
          /\ wlog' = Logged({c}, "connected")
          /\ wpc' = [wpc EXCEPT ![c] = "recv"]
       \/ /\ wpc' = [wpc EXCEPT ![c] = "closed"]
          /\ UNCHANGED <<alive, active_connections, wlog>>
    /\ UNCHANGED <<wstep, nrecv, wmsg, BVars, RestW>>

\* the client closes its end, or the network does
PeerGone(c) ==
    /\ c \in alive
    /\ alive' = alive \ {c}
    /\ UNCHANGED <<active_connections, wpc, wstep, nrecv, wmsg, wlog, BVars, RestW>>

\* an exception leaves the loop and the connection stays in the set
EndConnection_KeepsEntry(c) ==
    /\ wpc' = [wpc EXCEPT ![c] = "closed"]
    /\ wstep' = [wstep EXCEPT ![c] = 0]
    /\ active_connections' = active_connections

\* lines 161-166: an exception leaves the loop; finally discards the client
EndConnection(c) ==
    /\ wpc' = [wpc EXCEPT ![c] = "closed"]
    /\ wstep' = [wstep EXCEPT ![c] = 0]
    /\ active_connections' = active_connections \ {c}

\* receive_json() raises WebSocketDisconnect
RecvDisconnect(c) ==
    /\ wpc[c] = "recv" /\ c \notin alive
    /\ EndConnection(c)
    /\ UNCHANGED <<alive, nrecv, wmsg, wlog, BVars, RestW>>

\* receive_json() returns a message of the client with the type t
Receives(c, t) ==
    /\ wpc[c] = "recv" /\ c \in alive
    /\ nrecv < MaxMessages
    /\ nrecv' = nrecv + 1
    /\ wmsg' = [from |-> c, type |-> t]

RecvPing(c) ==
    /\ \E t \in MessageTypes : Branch(t) = "ping" /\ Receives(c, t)
    /\ wlog' = Logged(PongTo(c, active_connections), "pong")
    /\ UNCHANGED <<active_connections, alive, wpc, wstep, BVars, RestW>>

RecvQuery(c) ==
    /\ \E t \in MessageTypes : Branch(t) = "query" /\ Receives(c, t)
    /\ wpc' = [wpc EXCEPT ![c] = "query"]
    /\ wstep' = [wstep EXCEPT ![c] = 1]
    /\ UNCHANGED <<active_connections, alive, wlog, BVars, RestW>>

\* one step of the query branch; a send to a client that is gone raises
QueryStep(c) ==
    /\ wpc[c] = "query"
    /\ LET step == QuerySteps[wstep[c]]
           last == wstep[c] = Len(QuerySteps) IN
       IF step # "invoke" /\ c \notin alive
       THEN EndConnection(c) /\ UNCHANGED wlog
       ELSE /\ wlog' = Logged({c}, step)
            /\ wpc' = [wpc EXCEPT ![c] = IF last THEN "recv" ELSE "query"]
            /\ wstep' = [wstep EXCEPT ![c] = IF last THEN 0 ELSE @ + 1]
            /\ UNCHANGED active_connections
    /\ UNCHANGED <<alive, nrecv, wmsg, BVars, RestW>>

\* lines 154-159: daemon.get_system_state() returns or raises
RecvGetState(c) ==
    /\ \E t \in MessageTypes : Branch(t) = "get_state" /\ Receives(c, t)
    /\ \E env \in {"ok", "error"} :
         IF env = "ok"
         THEN wlog' = Logged({c}, "state") /\ UNCHANGED <<active_connections, wpc, wstep>>
         ELSE EndConnection(c) /\ UNCHANGED wlog
    /\ UNCHANGED <<alive, BVars, RestW>>

RecvOther(c) ==
    /\ \E t \in MessageTypes : Branch(t) = "ignore" /\ Receives(c, t)
    /\ UNCHANGED <<active_connections, alive, wpc, wstep, wlog, BVars, RestW>>

\* a message that is not JSON (receive_json raises) or not a JSON object
\* (data.get raises), or one whose branch raises
RecvMalformed(c) ==
    /\ \E t \in MessageTypes \cup {Malformed} :
         (t = Malformed \/ Branch(t) = "raise") /\ Receives(c, t)
    /\ EndConnection(c)
    /\ UNCHANGED <<alive, wlog, BVars, RestW>>

\* lines 175-180: one pass of the loop body for the connection c
Visit(c) ==
    /\ bvisited' = bvisited \cup {c}
    /\ IF c \in alive
       THEN wlog' = Logged({c}, "message") /\ UNCHANGED disconnected
       ELSE disconnected' = disconnected \cup {c} /\ UNCHANGED wlog

\* broadcast() up to its first await: lines 170-177.  One call is followed.
BroadcastBegin ==
    /\ bpc = "idle"
    /\ IF active_connections = {}
       THEN /\ bpc' = "returned"
            /\ bstart' = {} /\ bvisited' = {} /\ disconnected' = {}
            /\ UNCHANGED wlog
       ELSE /\ bpc' = "iter"
            /\ bstart' = active_connections
            /\ \E c \in active_connections :
                 /\ bvisited' = {c}
                 /\ IF c \in alive
                    THEN wlog' = Logged({c}, "message") /\ disconnected' = {}
                    ELSE disconnected' = {c} /\ UNCHANGED wlog
    /\ UNCHANGED <<active_connections, alive, wpc, wstep, nrecv, wmsg, RestW>>

\* the set iterator: the size the set had when the iteration began
SameSize == Cardinality(active_connections) = Cardinality(bstart)

\* the iterator yields the next connection
BroadcastNext ==
    /\ bpc = "iter" /\ SameSize
    /\ \E c \in active_connections \ bvisited : Visit(c)
    /\ UNCHANGED <<active_connections, alive, wpc, wstep, nrecv, wmsg, bpc, bstart, RestW>>

\* the iterator finds the set changed size: RuntimeError leaves broadcast()
BroadcastRaise ==
    /\ bpc = "iter" /\ ~SameSize
    /\ bpc' = "raised"
    /\ bstart' = {} /\ bvisited' = {} /\ disconnected' = {}
    /\ UNCHANGED <<active_connections, alive, wpc, wstep, nrecv, wmsg, wlog, RestW>>

\* the iterator is exhausted; line 183
BroadcastEnd ==
    /\ bpc = "iter" /\ SameSize
    /\ (active_connections \ bvisited) \cap bstart = {}
    /\ active_connections' = active_connections \ disconnected
    /\ bpc' = "returned"
    /\ bstart' = {} /\ bvisited' = {} /\ disconnected' = {}
    /\ UNCHANGED <<alive, wpc, wstep, nrecv, wmsg, wlog, RestW>>

\* the connection handlers
WHandlers ==
    \E c \in Clients :
       \/ Accept(c) \/ PeerGone(c) \/ RecvDisconnect(c)
       \/ RecvPing(c) \/ RecvQuery(c) \/ QueryStep(c)
       \/ RecvGetState(c) \/ RecvOther(c) \/ RecvMalformed(c)

WNext ==
    \/ WHandlers
    \/ BroadcastBegin \/ BroadcastNext \/ BroadcastRaise \/ BroadcastEnd

\* the event loop runs a handler that can take a step
WebFairness == \A c \in Clients : WF_vars(QueryStep(c))

InitWeb == QIdle /\ LIdle /\ MIdle /\ XIdle /\ FIdle /\ EIdle
SpecWeb == InitWeb /\ [][WNext]_vars
\* the handlers without a broadcast, under the scheduling of the event loop
SpecWebFair == InitWeb /\ [][WHandlers]_vars /\ WebFairness

(***************************************************************************)
(* The life of the daemon.  Each background task is a loop that tests its  *)
(* own condition when it wakes: hyprland.running, system_monitor.running,  *)
(* not server.should_exit, daemon.running.                                 *)
(***************************************************************************)
Ended == {"done", "cancelled"}
RestD == <<qvars, lvars, mvars, xvars, fvars, wvars, hvars, nvars>>

\* stop() with the store closed before the tasks are cancelled
StopSteps_CloseFirst ==
    <<[op |-> "running"], [op |-> "close", t |-> ""]>>
    \o [i \in 1..Len(Tasks) |-> [op |-> "cancel", t |-> Tasks[i]]]
    \o <<[op |-> "web_stop", t |-> ""], [op |-> "hyprland_stop", t |-> ""]>>

\* lines 92-106, in order
StopSteps ==
    <<[op |-> "running", t |-> ""]>>
    \o [i \in 1..Len(Tasks) |-> [op |-> "cancel", t |-> Tasks[i]]]
    \o <<[op |-> "web_stop", t |-> ""], [op |-> "hyprland_stop", t |-> ""],
         [op |-> "close", t |-> ""]>>

\* lines 66-81: the tasks are created and gather() is awaited; each task
\* sets its own flag when it first runs
DStart ==
    /\ dpc = "init"
    /\ dpc' = "gather"
    /\ tstate' = [t \in TaskNames |-> "running"]
    /\ loopflag' = [t \in TaskNames |-> TRUE]
    /\ UNCHANGED <<dhow, dstep, signalled, closed, RestD>>

\* A signal arrives.  signal.signal installs _signal_handler (lines 54-55);
\* the web server's serve() installs handlers of its own while it runs, so
\* the signal reaches the daemon's handler, the server's, or both.
Signal ==
    /\ dpc \in {"gather", "stop"} /\ ~signalled
    /\ signalled' = TRUE
    /\ \E to \in SUBSET {"context_updater", "web_server"} :
         /\ to # {}
         /\ loopflag' = [t \in TaskNames |-> IF t \in to THEN FALSE ELSE loopflag[t]]
    /\ UNCHANGED <<dpc, dhow, dstep, tstate, closed, RestD>>

\* a task wakes, finds its condition false and returns
TaskExit(t) ==
    /\ tstate[t] = "running" /\ ~loopflag[t]
    /\ tstate' = [tstate EXCEPT ![t] = "done"]
    /\ UNCHANGED <<dpc, dhow, dstep, loopflag, signalled, closed, RestD>>

\* a task is resumed with CancelledError and leaves its loop
TaskCancelled(t) ==
    /\ tstate[t] = "cancelling"
    /\ tstate' = [tstate EXCEPT ![t] = "cancelled"]
    /\ UNCHANGED <<dpc, dhow, dstep, loopflag, signalled, closed, RestD>>

\* the web server's task ends with an exception (the port is taken)
ServerFails ==
    /\ tstate["web_server"] = "running"
    /\ tstate' = [tstate EXCEPT !["web_server"] = "done"]
    /\ UNCHANGED <<dpc, dhow, dstep, loopflag, signalled, closed, RestD>>

\* a holder of the task (daemon.tasks) cancels it
TaskCancel(t) ==
    /\ tstate[t] = "running"
    /\ tstate' = [tstate EXCEPT ![t] = "cancelling"]
    /\ UNCHANGED <<dpc, dhow, dstep, loopflag, signalled, closed, RestD>>

EnterStop(how) ==
    /\ dpc' = "stop"
    /\ dhow' = how
    /\ dstep' = 1

\* line 81: gather(*tasks, return_exceptions=True) returns
GatherReturns ==
    /\ dpc = "gather"
    /\ \A t \in TaskNames : tstate[t] \in Ended
    /\ EnterStop("returned")
    /\ UNCHANGED <<tstate, loopflag, signalled, closed, RestD>>

\* lines 83-87: an exception in the try block
ErrorInStart ==
    /\ dpc = "gather"
    /\ EnterStop("raised")
    /\ UNCHANGED <<tstate, loopflag, signalled, closed, RestD>>

\* start() is cancelled while it awaits gather(), which cancels the tasks
CancelStart ==
    /\ dpc = "gather"
    /\ EnterStop("cancelled")
    /\ tstate' = [t \in TaskNames |->
                    IF tstate[t] = "running" THEN "cancelling" ELSE tstate[t]]
    /\ UNCHANGED <<loopflag, signalled, closed, RestD>>

\* one step of stop()
StopStep ==
    /\ dpc = "stop"
    /\ LET step == StopSteps[dstep]
           next == /\ dstep' = IF dstep = Len(StopSteps) THEN 0 ELSE dstep + 1
                   /\ dpc' = IF dstep = Len(StopSteps) THEN "finished" ELSE "stop"
           Off(t) == loopflag' = [loopflag EXCEPT ![t] = FALSE] IN
       CASE step.op = "running" ->
              Off("context_updater") /\ next /\ UNCHANGED <<tstate, closed>>
         [] step.op = "cancel" ->
              \* lines 95-101: cancel the task and await it
              IF tstate[step.t] \in Ended
              THEN next /\ UNCHANGED <<tstate, loopflag, closed>>
              ELSE /\ tstate[step.t] = "running"
                   /\ tstate' = [tstate EXCEPT ![step.t] = "cancelling"]
                   /\ UNCHANGED <<dpc, dstep, loopflag, closed>>
         [] step.op = "web_stop" ->
              Off("web_server") /\ next /\ UNCHANGED <<tstate, closed>>
         [] step.op = "hyprland_stop" ->
              Off("hyprland_events") /\ next /\ UNCHANGED <<tstate, closed>>
         [] step.op = "close" ->
              closed' = closed + 1 /\ next /\ UNCHANGED <<tstate, loopflag>>
    /\ UNCHANGED <<dhow, signalled, RestD>>

DNext ==
    \/ DStart \/ Signal \/ ServerFails
    \/ \E t \in TaskNames : TaskExit(t) \/ TaskCancelled(t) \/ TaskCancel(t)
    \/ GatherReturns \/ ErrorInStart \/ CancelStart \/ StopStep

\* the event loop runs every coroutine that can go on
DaemonFairness ==
    /\ WF_vars(DStart) /\ WF_vars(GatherReturns) /\ WF_vars(StopStep)
    /\ \A t \in TaskNames : WF_vars(TaskExit(t)) /\ WF_vars(TaskCancelled(t))

InitDaemon == QIdle /\ LIdle /\ MIdle /\ XIdle /\ FIdle /\ EIdle
SpecDaemon == InitDaemon /\ [][DNext]_vars /\ DaemonFairness

(***************************************************************************)
(* Shutdown with a query in flight.  A push connection's handler runs in   *)
(* a task of the web server's own, not one of daemon.tasks.  A step of a   *)
(* coroutine runs from one await to the next.  The event loop runs the     *)
(* steps that are ready; when main() has ended it finishes the round of    *)
(* ready steps it is in, and asyncio.run() then cancels the tasks left.    *)
(***************************************************************************)
\* Appends to the ContextStore in a run.
MaxAppends == 3

RestI == <<qvars, lvars, mvars, xvars, fvars, wvars, dvars, hvars, rvars, kvars, svars>>

Stored(op) == Append(ilog, [op |-> op, closed |-> closed > 0])

\* the loop may run a step of the pipeline
MayRun == lstate # "closed" /\ (dpc = "finished" => ~iran)

\* server.py line 143: a query message arrives, process_user_query runs to
\* its first await
QueryArrives ==
    /\ ipc = "none"
    /\ lstate = "running"
    /\ tstate["web_server"] = "running"
    /\ ipc' = "awaiting"
    /\ UNCHANGED <<ilog, lstate, iran, RestI>>

\* daemon.py lines 216-233: execute() comes back without another await (or
\* the pipeline wakes from an await that ended), add_command appends, the
\* pipeline sleeps
PipelineAddsCommand ==
    /\ ipc = "awaiting" /\ MayRun
    /\ Len(ilog) < MaxAppends
    /\ ilog' = Stored("add_command")
    /\ iran' = (dpc = "finished")
    /\ UNCHANGED <<ipc, lstate, RestI>>

\* daemon.py lines 172-175: the loop is over, the two turns are appended
\* with no await between them, process_user_query returns
PipelineAddsTurns ==
    /\ ipc = "awaiting" /\ MayRun
    /\ Len(ilog) < MaxAppends
    /\ ilog' = Stored("add_conversation")
    /\ ipc' = "ended"
    /\ iran' = (dpc = "finished")
    /\ UNCHANGED <<lstate, RestI>>

\* daemon.py lines 112-118: the periodic updater stores the state
UpdaterStores ==
    /\ tstate["context_updater"] = "running" /\ loopflag["context_updater"]
    /\ lstate = "running"
    /\ Len(ilog) < MaxAppends
    /\ ilog' = Stored("update_system_state")
    /\ UNCHANGED <<ipc, lstate, iran, RestI>>

\* the web server's task has ended and took the handler's task with it
HandlerCancelled ==
    /\ ipc = "awaiting"
    /\ tstate["web_server"] \in Ended
    /\ ipc' = "cancelled"
    /\ UNCHANGED <<ilog, lstate, iran, RestI>>

\* daemon.py lines 251-261: start() has returned or raised, main() ends
MainEnds ==
    /\ dpc = "finished" /\ lstate = "running"
    /\ lstate' = "stopping"
    /\ UNCHANGED <<ipc, ilog, iran, RestI>>

\* asyncio.run() cancels the tasks that are left and closes the loop
RunCancelsAll ==
    /\ lstate = "stopping"
    /\ lstate' = "closed"
    /\ ipc' = IF ipc = "awaiting" THEN "cancelled" ELSE ipc
    /\ UNCHANGED <<ilog, iran, RestI>>

INext ==
    \/ QueryArrives \/ PipelineAddsCommand \/ PipelineAddsTurns
    \/ UpdaterStores \/ HandlerCancelled \/ MainEnds \/ RunCancelsAll

SpecShutdown == InitDaemon /\ [][DNext \/ INext]_vars

(***************************************************************************)
(* HyprlandConnector.get_state: five sub-commands over the command socket, *)
(* each parsed with json.loads, inside one try block.                      *)
(***************************************************************************)
\* lines 143-160: the sub-commands and the fields they fill, in order
SubCommands == <<"activewindow", "workspaces", "monitors", "clients", "activeworkspace">>
Fields == <<"active_window", "workspaces", "monitors", "clients", "workspace">>

\* What becomes of a sub-command: the compositor answers with JSON, with an
\* empty response, with text that is not JSON (an error text, or JSON cut
\* at the 8192 bytes read), or the socket fails.
Outcomes == {"ok", "empty", "unparseable", "transport"}

EmptyValue(i) ==
    IF Fields[i] \in {"active_window", "workspace"}
    THEN [kind |-> "dict", holds |-> "nothing"]
    ELSE [kind |-> "list", holds |-> "nothing"]
ValueOf(i) == [kind |-> "json", holds |-> SubCommands[i]]
ErrorObject == [kind |-> "dict", holds |-> "error"]

\* lines 108-135: the text execute_command returns; it never raises
CommandText(outcome, i) ==
    CASE outcome = "ok" -> [text |-> "json", parsed |-> ValueOf(i)]
      [] outcome = "empty" -> [text |-> "", parsed |-> ErrorObject]
      [] outcome = "unparseable" -> [text |-> "other", parsed |-> ErrorObject]
      [] outcome = "transport" -> [text |-> "json", parsed |-> ErrorObject]

With(state, key, value) ==
    [k \in DOMAIN state \cup {key} |-> IF k = key THEN value ELSE state[k]]

\* lines 137-165: the fields are filled in order; json.loads raising ends
\* the try block and the snapshot is returned as it is
RECURSIVE FillFrom(_, _, _)
FillFrom(i, outcomes, state) ==
    IF i > Len(SubCommands) THEN state
    ELSE LET r == CommandText(outcomes[i], i) IN
         IF r.text = "" THEN FillFrom(i + 1, outcomes, With(state, Fields[i], EmptyValue(i)))
         ELSE IF r.text # "json" THEN state
         ELSE FillFrom(i + 1, outcomes, With(state, Fields[i], r.parsed))

HyprGetState(outcomes) == FillFrom(1, outcomes, EmptyDict)

RestH == <<qvars, lvars, mvars, xvars, fvars, wvars, dvars, nvars>>

CompositorGetState ==
    /\ hout = <<>>
    /\ hout' = <<HyprGetState(hin)>>
    /\ UNCHANGED <<hin, pin, pout, RestH>>

InitCompositor ==
    /\ hin \in [1..Len(SubCommands) -> Outcomes]
    /\ hout = <<>> /\ pin = <<>> /\ pout = <<>>
    /\ QIdle /\ LIdle /\ MIdle /\ XIdle /\ FIdle /\ WIdle /\ DIdle /\ NIdle
SpecCompositor == InitCompositor /\ [][CompositorGetState]_vars

(***************************************************************************)
(* HyprlandConnector.dispatch and _handle_hyprland_dispatch.  A response   *)
(* text is a sequence of pieces; "Error" is the error marker in another    *)
(* case.                                                                   *)
(***************************************************************************)
\* Pieces in the longest response text.
MaxResponse == 2

ResponsePieces == {"ok", "error", "Error"}
Responses == UNION { [1..k -> ResponsePieces] : k \in 0..MaxResponse }

\* str.lower()
Lower(text) == [i \in DOMAIN text |-> IF text[i] = "Error" THEN "error" ELSE text[i]]

\* lines 118-135 of execute_command: the response, or the error as JSON
ResponseText(outcome, response) ==
    IF outcome = "transport" THEN <<"{", "error", "}">> ELSE response

\* dispatch with the marker looked for in the response as it is
HyprDispatch_CaseSensitive(outcome, response) ==
    Return(~In(<<"error">>, ResponseText(outcome, response)), 0)

\* lines 167-194: every statement is inside the try; an exception there
\* (none of execute_command, which catches its own) returns False
HyprDispatch(outcome, response) ==
    Return(~In(<<"error">>, Lower(ResponseText(outcome, response))), 0)

\* action_dispatcher.py lines 263-276.  args that cannot be unpacked
\* (*args of a value that is not iterable) raise before dispatch is called.
HandleHyprlandDispatch(in) ==
    IF in.dispatcher = "" THEN [h |-> Raise("No dispatcher specified", 0), dispatched |-> <<>>]
    ELSE IF ~in.iterable THEN [h |-> Raise("TypeError", 0), dispatched |-> <<>>]
    ELSE LET d == HyprDispatch(in.outcome, in.response) IN
         IF d.raised THEN [h |-> d, dispatched |-> <<d>>]
         ELSE IF ~d.val THEN [h |-> Raise("Dispatcher failed", 0), dispatched |-> <<d>>]
         ELSE [h |-> Return("Executed", 0), dispatched |-> <<d>>]

DispatchAction ==
    /\ pout = <<>>
    /\ LET did == HandleHyprlandDispatch(pin) IN
       pout' = <<[dispatched |-> did.dispatched, ret |-> Wrap(did.h)]>>
    /\ UNCHANGED <<hin, hout, pin, RestH>>

InitDispatch ==
    /\ pin \in [dispatcher : {"", "workspace"}, iterable : BOOLEAN,
                 outcome : {"ok", "transport"}, response : Responses]
    /\ pout = <<>> /\ hin = <<>> /\ hout = <<>>
    /\ QIdle /\ LIdle /\ MIdle /\ XIdle /\ FIdle /\ WIdle /\ DIdle /\ NIdle
SpecDispatch == InitDispatch /\ [][DispatchAction]_vars

(***************************************************************************)
(* Properties of the query pipeline.                                       *)
(***************************************************************************)
\* process_user_query(q) returned the result _execute_ai_response built
FromExecution(q) == pc[q] = "done" /\ ret[q].error = Absent

Turns(q) == SelectSeq(conversation, LAMBDA t : t.q = q)

\* C1: the 'actions' list of the result has exactly one entry per action
\* the model returned, entry i being the result of action i, also when the
\* command-history append of an action fails.
ResultPerAction ==
    \A q \in Queries :
      FromExecution(q) =>
        /\ Len(ret[q].actions) = Len(Actions(q))
        /\ \A i \in 1..Len(Actions(q)) :
             /\ ret[q].actions[i].action = Actions(q)[i]
             /\ ret[q].actions[i].success = calls[q][i].ret.success

\* C2: within one query execute() is called once per returned action, in
\* list order, each call beginning only after the one before has come back,
\* and a failed or rejected action does not keep the later ones from being
\* executed.
ExecuteOnceInOrder ==
    \A q \in Queries :
      /\ Len(calls[q]) <= Len(Actions(q))
      /\ \A k \in 1..Len(calls[q]) :
           /\ calls[q][k].i = k
           /\ calls[q][k].action = Actions(q)[k]
           /\ calls[q][k].state = "pending" => k = Len(calls[q]) /\ pc[q] = "handler"
      /\ pc[q] = "handler" => calls[q] # <<>> /\ calls[q][Len(calls[q])].state = "pending"
      /\ FromExecution(q) => Len(calls[q]) = Len(Actions(q))

\* Both queries are between two of their actions, the first action of one
\* having failed: the calls of the two queries interleave, and the failed
\* query goes on to its second action.
InterleavedAfterFailure ==
    /\ \A q \in Queries : pc[q] = "handler" /\ Len(calls[q]) = 2
    /\ \E q \in Queries : ~calls[q][1].ret.success

\* C3: execute() of an action whose type is not registered returns
\* {success: false, error: unknown kind}, calls no handler, spawns nothing
\* and does not raise.
UnknownKindRejected ==
    \A q \in Queries : \A k \in 1..Len(calls[q]) :
      LET c == calls[q][k] IN
      c.action.type \notin Handlers =>
        /\ c.state = "returned"
        /\ c.ret.success = FALSE
        /\ c.ret.error = "Unknown action type: " \o c.action.type
        /\ c.look # "call"
        /\ c.spawned = 0

\* C4: execute() of an action of a registered kind always returns a value:
\* {success: false, error} when the handler raised, {success: true, output}
\* with the handler's return value when it returned.
HandlerOutcomeWrapped ==
    \A q \in Queries : \A k \in 1..Len(calls[q]) :
      LET c == calls[q][k] IN
      (c.action.type \in Handlers /\ c.state # "pending") =>
        /\ c.state = "returned"
        /\ c.handler.raised =>
             c.ret.success = FALSE /\ c.ret.error = c.handler.val
        /\ ~c.handler.raised =>
             c.ret.success = TRUE /\ c.ret.output = c.handler.val

\* One query has had a handler raise and a handler return.
HandlerRaisedAndReturned ==
    \E q \in Queries : \E j, k \in 1..Len(calls[q]) :
      /\ calls[q][j].state = "returned" /\ calls[q][j].handler.raised
      /\ calls[q][k].state = "returned" /\ calls[q][k].look = "call"
      /\ ~calls[q][k].handler.raised

\* C5: when the model client fails in transport or its reply cannot be
\* parsed, the result has success = false, an explanation describing the
\* error, and no actions.
ModelFailureDegrades ==
    \A q \in Queries :
      (FromExecution(q) /\ reply[q].error # Absent) =>
        /\ ret[q].success = FALSE
        /\ ret[q].explanation = reply[q].explanation
        /\ ret[q].actions = <<>>

\* C6: the result's success is the conjunction of the success of its
\* ActionResults, and the result carries the model's explanation, the
\* ActionResults and a timestamp.
SuccessIsConjunction ==
    \A q \in Queries :
      FromExecution(q) =>
        /\ ret[q].success = (\A i \in 1..Len(ret[q].actions) : ret[q].actions[i].success)
        /\ (\E i \in 1..Len(ret[q].actions) : ~ret[q].actions[i].success)
              => ~ret[q].success
        /\ ret[q].explanation =
              (IF reply[q].explanation = Absent THEN "" ELSE reply[q].explanation)
        /\ ret[q].actions = results[q]
        /\ ret[q].timestamp # Absent

\* A returned result with a failed action after a successful one.
MixedResult ==
    \E q \in Queries :
      /\ FromExecution(q)
      /\ Len(ret[q].actions) >= 2
      /\ ret[q].actions[1].success
      /\ ~ret[q].actions[2].success
      /\ ~ret[q].success

\* C7: an action that execute() failed or rejected has an ActionResult with
\* success = false that carries the error message.
FailureCarriesError ==
    \A q \in Queries : \A k \in 1..Len(calls[q]) :
      LET c == calls[q][k] IN
      (c.state = "returned" /\ ~c.ret.success) =>
        \E j \in 1..Len(results[q]) :
          /\ results[q][j].action = c.action
          /\ results[q][j].success = FALSE
          /\ results[q][j].error = c.ret.error

\* C8: a call of process_user_query that has returned has appended exactly
\* two conversation turns, the query as user and then the stringified
\* result as assistant, whether or not the result is a failure.
TwoTurnsPerQuery ==
    \A q \in Queries :
      pc[q] = "done" =>
        /\ Len(Turns(q)) = 2
        /\ Turns(q)[1].role = "user" /\ Turns(q)[1].content = q
        /\ Turns(q)[2].role = "assistant" /\ Turns(q)[2].content = Dumps(ret[q])


(***************************************************************************)
(* Properties of the event listener.                                       *)
(***************************************************************************)
Observers == 1..Len(event_callbacks)

\* the for loop of the current delivery has not reached observer o
NotReached(o) == cbIdx > 0 /\ o > cbIdx

\* C9: the events reach _handle_event in the order of the socket, and every
\* observer is called with them in that same order: what observer o has
\* received is, call by call, what was handled since o was registered.
EventOrderPreserved ==
    /\ \A i, j \in 1..Len(handled) : i < j => handled[i].id <= handled[j].id
    /\ \A o \in Observers :
         /\ Len(received[o]) <= Len(handled) - regAt[o]
         /\ \A k \in 1..Len(received[o]) : received[o][k] = handled[regAt[o] + k]
         /\ \A i, j \in 1..Len(received[o]) :
              i < j => received[o][i].id <= received[o][j].id

\* Two observers have both received workspace, openwindow, activewindow, in
\* that order.
BothReceivedThree ==
    /\ Len(event_callbacks) = 2
    /\ \A o \in Observers :
         /\ Len(received[o]) = 3
         /\ [k \in 1..3 |-> received[o][k].type] =
               <<"workspace_changed", "window_opened", "window_focused">>

\* C10: an observer that raises takes nothing from the others: while the
\* listener has not ended, every observer has been called with every event
\* handled since it was registered (those the running for loop has yet to
\* reach excepted), and the step in which a callback raises leaves the
\* listener in its loop.
ObserverErrorContained ==
    /\ [](lpc # "cancelled" =>
            \A o \in Observers :
              Len(received[o]) =
                 Len(handled) - regAt[o] - (IF NotReached(o) THEN 1 ELSE 0))
    /\ [][(\E o \in Observers : failed'[o] # failed[o])
             => lpc' \in {"callback", "lines"}]_vars

\* Observer 1 raised on an event that observer 2 has received as well, and
\* observer 1 has been called with a later event.
DeliveredPastFailure ==
    /\ Len(event_callbacks) = 2
    /\ failed[1] > 0
    /\ regAt[2] < failed[1]
    /\ Len(received[2]) >= failed[1] - regAt[2]
    /\ Len(received[1]) > failed[1] - regAt[1]

\* the connection is lost: the connect failed or the read raised (the
\* backoff sleep is under way), or the stream ended (the writer is closed)
ConnectionLost == lpc \in {"backoff", "close"}

\* C11: while it is neither stopped nor cancelled the listener does not
\* terminate, and after every loss of the connection it makes another
\* connection attempt (unless it is stopped or cancelled first), however
\* many losses came before.
NeverGivesUp ==
    /\ [](lpc = "done" => ~running)
    /\ [](ConnectionLost => <>(lpc = "connect" \/ ~running \/ lpc = "cancelled"))

\* The listener, still running, is connecting again after it has read
\* events on an earlier connection.
ReconnectingAfterLoss ==
    /\ running
    /\ lpc = "connect"
    /\ emitted > 0

\* C12: every connection attempt but the first is preceded by the backoff
\* sleep: the listener comes to its connect only from the sleep of line 73,
\* after a clean end of stream as after a raised error.
BackoffBeforeReconnect ==
    [][(lpc' = "connect" /\ lpc \notin {"init", "connect"}) => lpc = "backoff"]_vars

\* stop() has been called on a listener that had started
Stopped == ~running /\ lpc # "init"

\* C13: once stop() has been called on a running listener, the listener
\* begins no further connection attempt and no further read, and it ends
\* when the await it is in completes; a second stop() changes nothing.
StopEndsListener ==
    /\ [][Stopped => (lpc' \in {"connect", "read"} => lpc' = lpc)]_vars
    /\ [](Stopped => <>(lpc \in {"done", "cancelled"}))
    /\ [][(Stop /\ ~running) => UNCHANGED vars]_vars

\* The listener has handled events, was stopped, and has left its loop.
StoppedAfterEvents ==
    /\ ~running
    /\ lpc = "done"
    /\ handled # <<>>


(***************************************************************************)
(* Properties of the SystemMonitor.                                        *)
(***************************************************************************)
\* C14: a get_state call made with a snapshot stored returns that snapshot
\* and takes no sample; one made with none stored takes exactly one sample
\* and returns it, the snapshot being stored when it returns; and two calls
\* with no store between their returns return the same snapshot.
GetStateLazyFill ==
    /\ [](\A i \in 1..Len(returned) :
            LET r == returned[i] IN
            IF r.before # NoSnapshot
            THEN r.samples = 0 /\ ~r.raised /\ r.snap = r.before
            ELSE r.samples = 1 /\ (~r.raised => r.snap # NoSnapshot))
    /\ [](\A i, j \in 1..Len(returned) :
            (~returned[i].raised /\ ~returned[j].raised
               /\ returned[i].stores = returned[j].stores)
              => returned[i].snap = returned[j].snap)
    /\ [][(Len(returned') > Len(returned) /\ ~returned'[Len(returned')].raised)
             => returned'[Len(returned')].snap = current_state']_vars

\* A call that filled the empty snapshot by its own sample, and a later
\* call by the other caller that returned the same snapshot without one.
FilledThenServed ==
    \E i, j \in 1..Len(returned) :
      /\ i < j
      /\ returned[i].samples = 1 /\ ~returned[i].raised
      /\ returned[j].samples = 0
      /\ returned[j].caller # returned[i].caller
      /\ returned[j].snap = returned[i].snap

\* C15: a sample of the telemetry loop that raises leaves current_state as
\* it was and the loop goes to its interval sleep, from which it goes on to
\* the next sample; and no step makes a non-empty current_state empty.
FailedSampleRetained ==
    /\ [][errors' # errors => (current_state' = current_state /\ mpc' = "sleep")]_vars
    /\ [][(mpc = "sleep" /\ mpc' # "sleep") => mpc' \in {"sample", "cancelled"}]_vars
    /\ [][current_state # NoSnapshot => current_state' # NoSnapshot]_vars

\* With no get_state call made, the loop's first sample is stored, its
\* second has raised and its third is under way.
SampledAgainAfterError ==
    /\ returned = <<>>
    /\ \A c \in Callers : gpc[c] = "idle"
    /\ current_state # NoSnapshot
    /\ current_state["timestamp"] = 1
    /\ errors = 1
    /\ sampled = 3
    /\ mpc = "sample"

\* the default a failed sub-probe leaves in its field
TypedDefault(p, v) ==
    CASE p = "disk_usage" -> v = EmptyDict
      [] p = "network" -> "wifi_connected" \in DOMAIN v /\ v["wifi_connected"] = FALSE
      [] p = "battery" -> v = "None"
      [] p = "audio" -> v = [volume |-> 0, muted |-> FALSE]
      [] p = "bluetooth" -> v = [powered |-> FALSE, available |-> FALSE]
      [] p = "uptime_seconds" -> v = 0

\* C16: every snapshot stored or returned by get_state has all top-level
\* keys; a sample in which a sub-probe failed is still stored, the field of
\* the failed probe holding its default (wifi_connected false for the
\* network probe) and every other field what a sample with no failure
\* holds.
SnapshotComplete ==
    /\ current_state # NoSnapshot => DOMAIN current_state = TopKeys
    /\ \A i \in 1..Len(returned) :
         ~returned[i].raised => DOMAIN returned[i].snap = TopKeys
    /\ stores > 0 =>
         /\ \A k \in CoreKeys : current_state[k] = "n"
         /\ \A p \in Probes :
              IF probed[p] = "ok"
              THEN current_state[p] =
                      GatherSystemState(current_state["timestamp"], AllOk)[p]
              ELSE TypedDefault(p, current_state[p])

\* get_state has returned the stored snapshot of a sample whose network
\* probe raised: its network field is {wifi_connected: False}, its audio
\* field that of a working probe.
DegradedSnapshotServed ==
    /\ stores > 0
    /\ probed["network"] = "oserror"
    /\ current_state["network"] = [wifi_connected |-> FALSE]
    /\ current_state["audio"] = [volume |-> 65, muted |-> TRUE]
    /\ \E i \in 1..Len(returned) : returned[i].snap = current_state


(***************************************************************************)
(* Properties of the action handlers.                                      *)
(***************************************************************************)
\* the text holds a deny-listed pattern at some position
HoldsDenied(command) ==
    \E pattern \in dangerous_patterns : \E i \in 1..Len(command) :
      /\ i + Len(pattern) - 1 <= Len(command)
      /\ SubSeq(command, i, i + Len(pattern) - 1) = pattern

\* C17: an execute action whose command text holds a deny-listed substring
\* is returned as failed with the blocked-command error, and no subprocess
\* was spawned for it (no command, no terminal, no `which` probe),
\* whatever its wait and terminal flags.
DeniedCommandSpawnsNothing ==
    (xcall # <<>> /\ HoldsDenied(xin.command)) =>
       /\ xcall[1].state = "returned"
       /\ xcall[1].ret.success = FALSE
       /\ xcall[1].ret.error = "Dangerous command blocked for safety"
       /\ xcall[1].spawned = 0

\* A command with 'dd if=' behind other text, asked to run in a terminal
\* without waiting, has been rejected.
DeniedInTerminal ==
    /\ xcall # <<>>
    /\ xin.command = <<"ls", "dd ", "if=">>
    /\ xin.terminal /\ ~xin.wait
    /\ ~xcall[1].ret.success

\* C18: a file_write action writes only to a path that resolves under the
\* home directory; for any other path it fails with the error of a path
\* outside the home directory and no file or directory is made or changed.
WriteConfinedToHome ==
    /\ [][(FileWrite /\ ~UnderHome(Target)) => (files' = files /\ dirs' = dirs)]_vars
    /\ [](fcall # <<>> /\ fcall[1].op = "file_write" /\ ~UnderHome(Target)
            => fcall[1].ret.error = "Can only write to files in home directory")

\* C19: a file_read action returns content only for a path that resolves
\* under the home directory; for any other path it fails with the error of
\* a path outside the home directory.
ReadConfinedToHome ==
    fcall # <<>> /\ fcall[1].op = "file_read" /\ ~UnderHome(Target)
        => /\ ~fcall[1].ret.success
           /\ fcall[1].ret.error = "Can only read files in home directory"

\* C20: a file_read that succeeds after a file_write that succeeded on the
\* same path, with no write in between, returns the content written.
WriteReadRoundTrip ==
    fcall # <<>> /\ fcall[1].op = "file_read" /\ fcall[1].ret.success /\ written # <<>>
        => fcall[1].ret.output = written[1]
(***************************************************************************)
(* Properties of the push channel.                                         *)
(***************************************************************************)
\* the step receives a message of the type t
Received(t) == nrecv' # nrecv /\ wmsg'.type = t

\* what the server sent to c in answer to its messages, and the pipeline
\* calls made for it: wlog[c] without the broadcast messages
Replies(log) == SelectSeq(log, LAMBDA m : m # "message")

\* C21: a ping produces exactly one pong to its sender and nothing else: no
\* message to another client, no change of the active set, no pipeline
\* call (so no store write, no model call, no action execution).
PingOnlyPongs ==
    [][Received("ping") =>
         /\ wlog' = [wlog EXCEPT ![wmsg'.from] = Append(@, "pong")]
         /\ UNCHANGED <<active_connections, wpc, wstep, BVars, qvars>>]_vars

PongSent ==
    /\ wmsg = [from |-> "w1", type |-> "ping"]
    /\ wlog = [c \in Clients |-> IF c = "w1" THEN <<"connected", "pong">> ELSE <<"connected">>]
    /\ active_connections = Clients

\* C22: a query is answered by one 'processing' and then one 'result' with
\* one call of the pipeline between them, and nothing else is sent to the
\* client in between; the branch is left once entered.
QueryAnsweredInOrder ==
    /\ [](\A c \in Clients :
            LET r == Replies(wlog[c]) IN
            /\ wpc[c] = "query" =>
                  /\ Len(r) >= wstep[c] - 1
                  /\ SubSeq(r, Len(r) - wstep[c] + 2, Len(r))
                        = SubSeq(<<"processing", "invoke", "result">>, 1, wstep[c] - 1)
            /\ \A i \in 1..Len(r) :
                  r[i] = "result" => i > 2 /\ r[i-1] = "invoke" /\ r[i-2] = "processing")
    /\ [][\A c \in Clients :
            /\ Received("query") /\ wmsg'.from = c => wpc'[c] = "query" /\ wlog' = wlog
            /\ wpc[c] = "query" /\ Replies(wlog'[c]) # Replies(wlog[c])
                  => Len(Replies(wlog'[c])) = Len(Replies(wlog[c])) + 1
            /\ wpc[c] = "query" /\ wpc'[c] = "recv"
                  => wstep[c] = 3 /\ wlog'[c] = Append(wlog[c], "result")
            /\ wpc[c] # "query" =>
                  \A m \in {"processing", "invoke", "result"} :
                     wlog'[c] # Append(wlog[c], m)]_vars
    /\ \A c \in Clients : [](wpc[c] = "query" => <>(wpc[c] # "query"))

QueryAnswered ==
    /\ wlog["w1"] = <<"connected", "processing", "invoke", "result">>
    /\ wpc["w1"] = "recv"
    /\ "w2" \in active_connections

\* C23: a message of an unknown type produces no reply and no state change,
\* and the connection goes on receiving.
UnknownTypeIgnored ==
    [][Received("other") =>
         /\ wpc'[wmsg'.from] = "recv"
         /\ wmsg'.from \in active_connections'
         /\ UNCHANGED <<active_connections, alive, wpc, wstep, wlog, BVars, qvars>>]_vars

ServedAfterUnknown ==
    /\ wmsg = [from |-> "w1", type |-> "ping"]
    /\ nrecv = 2
    /\ wlog["w1"] = <<"connected", "pong">>
    /\ wpc["w2"] = "none"

\* C24: an error while a message is handled never ends the receive loop:
\* a handler ends only when its client is gone.
ErrorKeepsConnection ==
    [][\A c \in Clients :
         wpc[c] # "closed" /\ wpc'[c] = "closed" => c \notin alive]_vars

\* C25: broadcast() does not raise, reaches every client connected for its
\* whole duration, and removes exactly the clients whose send failed.
BroadcastReachesAll ==
    /\ [](bpc # "raised")
    /\ [][BroadcastEnd =>
            /\ bstart \cap active_connections \subseteq bvisited
            /\ active_connections' = active_connections \ disconnected
            /\ disconnected \cap alive = {}]_vars
(***************************************************************************)
(* Properties of the daemon's life.                                        *)
(***************************************************************************)
\* C26: after a signal, shutdown completes: every background task exits
\* and the store is closed.
ShutdownCompletes ==
    signalled ~> (/\ dpc = "finished"
                  /\ \A t \in TaskNames : tstate[t] \in Ended
                  /\ closed = 1)

\* C27: however start() finishes, close() is called exactly once, and only
\* after the four background tasks are done or cancelled.
ClosedOnceAfterTasks ==
    /\ [](closed <= 1)
    /\ [](dpc = "finished" => closed = 1)
    /\ [][closed' # closed => \A t \in TaskNames : tstate[t] \in Ended]_vars

ClosedAfterCancellation ==
    /\ dpc = "finished" /\ dhow = "cancelled"
    /\ closed = 1
    /\ tstate["hyprland_events"] = "cancelled" /\ tstate["context_updater"] = "done"
(***************************************************************************)
(* Properties of the compositor link.                                      *)
(***************************************************************************)
\* C28: the snapshot of get_state always has its five fields; a field whose
\* sub-command failed in transport or returned text that cannot be parsed
\* holds its empty value, and every other field holds what its own
\* sub-command returned.
SnapshotFieldsIsolated ==
    hout # <<>> =>
        /\ DOMAIN hout[1] = {Fields[i] : i \in 1..Len(Fields)}
        /\ \A i \in 1..Len(Fields) :
              hout[1][Fields[i]] = IF hin[i] = "ok" THEN ValueOf(i) ELSE EmptyValue(i)
\* C29: current_state is assigned only by the monitoring loop, so no reader
\* replaces a snapshot with one whose sampling began earlier.
SnapshotWrittenByLoopOnly ==
    /\ [][current_state' # current_state => (mpc = "sample" /\ mpc' = "sleep")]_vars
    /\ [][(mpc' = mpc /\ current_state # NoSnapshot /\ current_state' # current_state)
            => current_state'["timestamp"] > current_state["timestamp"]]_vars
\* dispatch() was called and returned False
DispatchedFalse == pout[1].dispatched # <<>> /\ ~pout[1].dispatched[1].val

\* dispatch() never raises and returns False exactly when the response
\* holds the error marker in any case, a transport failure included
DispatchReturnsByMarker ==
    pout[1].dispatched # <<>> =>
        /\ ~pout[1].dispatched[1].raised
        /\ ~pout[1].dispatched[1].val
              <=> (\/ pin.outcome = "transport"
                   \/ \E i \in DOMAIN pin.response : pin.response[i] \in {"error", "Error"})

\* C30 as it is stated: the action fails exactly when dispatch returned
\* False or no dispatcher name was given.
DispatchFailsOnlyByDispatch ==
    pout # <<>> =>
        /\ DispatchReturnsByMarker
        /\ ~pout[1].ret.success <=> (DispatchedFalse \/ pin.dispatcher = "")

\* C30: dispatch never raises and returns False exactly when the response
\* holds the error marker; the action fails exactly when no dispatcher
\* name was given, the args cannot be unpacked, or dispatch returned False.
DispatchFailsByDispatchOrArgs ==
    pout # <<>> =>
        /\ DispatchReturnsByMarker
        /\ ~pout[1].ret.success
              <=> (DispatchedFalse \/ pin.dispatcher = "" \/ ~pin.iterable)

MarkerInOtherCase ==
    /\ pout # <<>>
    /\ pin.dispatcher = "workspace" /\ pin.iterable /\ pin.outcome = "ok"
    /\ pin.response = <<"ok", "Error">>
    /\ DispatchedFalse
    /\ pout[1].ret.error = "Dispatcher failed"

(***************************************************************************)
(* Properties of file_read's caps.                                         *)
(***************************************************************************)
\* the character at place i of a text of runs
RECURSIVE CharAt(_, _)
CharAt(text, i) ==
    IF text = <<>> THEN Absent
    ELSE IF i <= Head(text).n THEN Head(text).c
    ELSE CharAt(Tail(text), i - Head(text).n)

\* the places looked at: the ends of the text and of its runs, and the cap
Places == {1, 2, 2500, 2501, 4999, 5000}

\* C31: a file of more than 1 MiB on disk is rejected with the
\* file-too-large error and no content; a file of 1 MiB or less is not, and
\* is read when its bytes decode; content of more than 5000 characters is
\* returned cut to its first 5000 with success, shorter content unchanged.
ReadCapsDistinguished ==
    rout # <<>> =>
        LET size == StSize(rin.data)
            content == ReadRuns(rin.data)
            call == rout[1] IN
        /\ size > 1024 * 1024
              => ~call.success /\ call.error = "File too large (max 1MB)"
                 /\ call.output = Absent
        /\ size <= 1024 * 1024 => call.error # "File too large (max 1MB)"
        /\ size <= 1024 * 1024 /\ rin.env = "ok" =>
              /\ call.success
              /\ CharCount(content) <= 5000 => call.output = content
              /\ CharCount(content) > 5000 =>
                    /\ CharCount(call.output) = 5000
                    /\ \A i \in Places : CharAt(call.output, i) = CharAt(content, i)

\* a file of exactly 1 MiB whose content is longer than 5000 characters
ExactlyOneMiBTruncated ==
    /\ rout # <<>>
    /\ StSize(rin.data) = 1048576
    /\ CharCount(ReadRuns(rin.data)) = 524288
    /\ rout[1].success
    /\ CharCount(rout[1].output) = 5000

(***************************************************************************)
(* Properties of the context of a query.                                   *)
(***************************************************************************)
\* C32: the context handed to the model client holds at most 20
\* keybindings and at most 5 recent commands, whatever the store holds.
BundleWithinCaps ==
    kout # <<>> =>
        /\ Len(kout[1].context.keybindings) <= 20
        /\ Len(kout[1].context.recent_activity) <= 5

\* the prompt sent to the model shows at most 20 keybindings and at most 5
\* recent commands
PromptWithinCaps ==
    kout # <<>> =>
        /\ Len(kout[1].prompt.keybindings) <= 20
        /\ Len(kout[1].prompt.recent_commands) <= 5

(***************************************************************************)
(* Properties of the command socket.                                       *)
(***************************************************************************)
\* C33: every call of execute_command opens a connection of its own,
\* returns the whole response of the compositor however it arrives and
\* however long it is, and has closed the connection it opened when it
\* returns, with a response or with an error.
CommandCallWholeAndClosed ==
    /\ [][sconns' # sconns => (spc = "idle" /\ sconns' \notin sopen)]_vars
    /\ [](spc = "done" /\ sret[1].kind = "response" => sret[1].bytes = sreply.len)
    /\ [](spc = "done" => sopen = {})

(***************************************************************************)
(* Properties of the order of the pipeline.                                *)
(***************************************************************************)
\* the stage of process_user_query a position belongs to
StageOf(p) ==
    CASE p = "idle" -> 0
      [] p = "state" -> 1
      [] p = "shot" -> 2
      [] p = "model" -> 3
      [] p \in {"loop", "handler", "sleep"} -> 4
      [] p = "done" -> 5

\* C34: within one query the stages come in the order snapshot, optional
\* screenshot, one model call, execution of the actions, persistence of the
\* conversation turns, and never overlap: no action is executed before the
\* model call has returned, no turn is persisted before the last action
\* has finished.
StagesInOrder ==
    /\ [][\A q \in Queries :
            /\ StageOf(pc'[q]) >= StageOf(pc[q])
            /\ pc[q] = "model" /\ reply'[q] # reply[q] => StageOf(pc'[q]) > 3
            /\ reply'[q] # reply[q] => pc[q] = "model"
            /\ calls'[q] # calls[q] => StageOf(pc[q]) = 4 /\ reply[q] # NoReply
            /\ Turns(q)' # Turns(q) =>
                  /\ pc[q] = "loop" /\ pc'[q] = "done"
                  /\ Len(calls[q]) = Len(Actions(q))
                  /\ \A k \in 1..Len(calls[q]) : calls[q][k].state # "pending"]_vars
    /\ [](\A q \in Queries :
            StageOf(pc[q]) = 4 \/ FromExecution(q) => reply[q] # NoReply)

\* a query with a screenshot and two actions has been through every stage
AllStagesPassed ==
    /\ FromExecution("q1")
    /\ shot["q1"]
    /\ Len(calls["q1"]) = 2
    /\ Len(Turns("q1")) = 2

(***************************************************************************)
(* Properties of shutdown with a query in flight.                          *)
(***************************************************************************)
\* C35: no append to the ContextStore (add_command, add_conversation,
\* update_system_state) is made after close() was called; a pipeline in
\* flight when shutdown begins does not write to the closed store.
NoAppendAfterClose ==
    \A i \in DOMAIN ilog : ~ilog[i].closed

\* the periodic updater never stores after close()
UpdaterStoresBeforeClose ==
    \A i \in DOMAIN ilog : ilog[i].op = "update_system_state" => ~ilog[i].closed

(***************************************************************************)
(* Properties of the conversation log under concurrent queries.            *)
(***************************************************************************)
\* C36: with several queries in flight the conversation log never
\* interleaves their turns: every user turn is immediately followed by the
\* assistant turn of the same query, the two being appended in one step.
TurnsNotInterleaved ==
    /\ [](\A i \in DOMAIN conversation :
            IF conversation[i].role = "user"
            THEN /\ i < Len(conversation)
                 /\ conversation[i + 1].role = "assistant"
                 /\ conversation[i + 1].q = conversation[i].q
            ELSE /\ i > 1
                 /\ conversation[i - 1].role = "user"
                 /\ conversation[i - 1].q = conversation[i].q)
    /\ [][conversation' # conversation =>
            /\ Len(conversation') = Len(conversation) + 2
            /\ SubSeq(conversation', 1, Len(conversation)) = conversation]_vars

\* the turns of one query are in the log while the other query, submitted
\* too, is still executing its actions
TurnsWhileOtherInFlight ==
    /\ Len(conversation) = 2
    /\ conversation[1].q = "q2"
    /\ pc["q1"] = "handler"
    /\ Len(calls["q1"]) = 2

(***************************************************************************)
(* Properties of a new push connection and of the active set.              *)
(***************************************************************************)
\* C37: the first message a client gets on its connection is the welcome
\* 'connected'; no other message of the server, none of a concurrent
\* broadcast either, reaches it between its acceptance and the welcome.
WelcomeFirst ==
    /\ [](\A c \in Clients : wlog[c] # <<>> => wlog[c][1] = "connected")
    /\ [][\A c \in Clients :
            c \in active_connections' \ active_connections
               => wlog'[c] = <<"connected">>]_vars

\* w2 was accepted and welcomed while a broadcast was under way
WelcomedDuringBroadcast ==
    /\ bpc = "iter"
    /\ bstart = {"w1"}
    /\ active_connections = {"w1", "w2"}
    /\ wlog["w1"] = <<"connected", "message">>
    /\ wlog["w2"] = <<"connected">>

\* the connections whose handler is between accept and exit
Handled == {c \in Clients : wpc[c] \in {"recv", "query"}}

\* C38 as it is stated: the active set holds exactly the connections whose
\* handler is between accept and exit.
ActiveExactlyHandled ==
    active_connections = Handled

\* C38: the active set holds only connections whose handler is between
\* accept and exit; a connection is added once, on accept, and leaves the
\* set when its handler exits, on every exit path, or before that when a
\* broadcast could not send to it; after the handler has returned the
\* connection is never in the set again.
ActiveOnlyHandled ==
    /\ [](active_connections \subseteq Handled)
    /\ [](\A c \in Clients : wpc[c] = "closed" => c \notin active_connections)
    /\ [][\A c \in Clients :
            /\ c \in active_connections' \ active_connections => wpc[c] = "none"
            /\ c \in active_connections \ active_connections'
                  => \/ wpc'[c] = "closed"
                     \/ c \in disconnected /\ bpc = "iter" /\ bpc' = "returned"
            /\ wpc[c] \in {"recv", "query"} /\ wpc'[c] = "closed"
                  => c \notin active_connections']_vars

\* a broadcast has removed w1, whose handler is still receiving
RemovedByBroadcast ==
    /\ bpc = "returned"
    /\ wpc["w1"] = "recv"
    /\ "w1" \notin active_connections
    /\ "w2" \in active_connections

(***************************************************************************)
(* Properties of the records on the event socket.                          *)
(***************************************************************************)
\* the listener takes up the line that ends the record n: a whole record
\* of the chunk, or the rest of the record that straddled the reads
EndsRecord(n) ==
    /\ lpc = "lines" /\ chunk # <<>>
    /\ Head(chunk).id = n /\ n # torn.id
    /\ chunk' = Tail(chunk)

\* C39: every record the compositor has written whole is delivered exactly
\* once, with its full name and its full payload, however the stream is
\* split into reads: when the listener comes to the end of a record it
\* hands the whole record to _handle_event (which calls every observer),
\* and it has handed no part of the record over before.
RecordsDeliveredWhole ==
    [][\A n \in 1..MaxEvents :
         EndsRecord(n) =>
           /\ handled' = Append(handled, [id |-> n, type |-> EventMap(WireName(n)),
                                           full |-> TRUE])
           /\ \A k \in DOMAIN handled : handled[k].id # n]_vars

\* the command-log entries of the query q, oldest first
CommandsOf(q) == SelectSeq(commands, LAMBDA c : c.q = q)

\* the loop of _execute_ai_response has gone over every action of q
LoopOver(q) ==
    /\ reply[q] # NoReply /\ reply[q].iterable
    /\ idx[q] = Len(Actions(q))
    /\ pc[q] \in {"loop", "done"}

\* the k-th entry of q's command log is the entry of its k-th action
EntryOf(q, k) ==
    /\ k \in DOMAIN Actions(q)
    /\ CommandsOf(q)[k].i = k
    /\ CommandsOf(q)[k].command = Str(Actions(q)[k])
    /\ \E j \in DOMAIN calls[q] :
         /\ calls[q][j].i = k
         /\ calls[q][j].state # "pending"
         /\ CommandsOf(q)[k].success = calls[q][j].ret.success

\* C40: a query whose model reply holds N actions leaves exactly N entries
\* in the command log, one per action in action order, each with the
\* success flag of its action, rejected actions included; and the entry of
\* action i is in the log before action i+1 is started.
EveryActionLogged ==
    \A q \in live :
      /\ \A k \in DOMAIN CommandsOf(q) : EntryOf(q, k)
      /\ Len(calls[q]) <= Len(CommandsOf(q)) + 1
      /\ LoopOver(q) => Len(CommandsOf(q)) = Len(Actions(q))

\* What holds: an action whose execute() came back with a result, and whose
\* add_command did not fail, has its entry, in action order.
ReturnedActionsLogged ==
    \A q \in live :
      /\ \A k \in DOMAIN CommandsOf(q) :
           /\ CommandsOf(q)[k].i \in DOMAIN Actions(q)
           /\ CommandsOf(q)[k].command = Str(Actions(q)[CommandsOf(q)[k].i])
           /\ k > 1 => CommandsOf(q)[k - 1].i < CommandsOf(q)[k].i
      /\ ~faults =>
           \A j \in DOMAIN calls[q] :
             (calls[q][j].state = "returned" /\ (j < Len(calls[q]) \/ pc[q] # "handler")) =>
               \E k \in DOMAIN CommandsOf(q) :
                 /\ CommandsOf(q)[k].i = calls[q][j].i
                 /\ CommandsOf(q)[k].success = calls[q][j].ret.success
====
